---- MODULE Spec2Model ----
(***************************************************************************)
(* Book Management System: the book repository (filtered, paginated        *)
(* listing; create / update / delete; cached statistics), the JWT          *)
(* middleware in front of the mutating routes, and the admin-only user     *)
(* management routes.                                                      *)
(*                                                                         *)
(* Strings are sequences of one-character strings, so that LIKE patterns,  *)
(* case folding and substring search are computed, not assumed.  A         *)
(* nullable column holds {} (SQL NULL) or a one-element set {v}.           *)
(***************************************************************************)
EXTENDS Integers, Sequences, FiniteSets, TLC

VARIABLES
    dbType,       \* DB_TYPE, fixed when the process starts
    pool,         \* the connections of the pool: open, busy, LAST_INSERT_ID()
    isConnected,  \* connection status flag of the database module
    dbUp,         \* whether the database server answers (the environment's)
    lastHealthCheck, \* when query() last started a health check, in ms
    books,        \* rows of table books
    nextBookId,   \* the SERIAL / AUTO_INCREMENT counter of books.id
    users,        \* rows of table users
    statsCache,   \* BookService.statsCache: {} (null) or {[data, timestamp]}
    now,          \* Date.now(), in ms
    calls,        \* the handlers suspended at an await, with what they resume to
    lastResp,     \* the HTTP response sent last
    listed,       \* the outcome of the last BookService.getAllBooks call
    session       \* a client walking pages 1..totalPages of one listing

vars == <<dbType, pool, isConnected, dbUp, lastHealthCheck, books, nextBookId, users, statsCache, now,
          calls, lastResp, listed, session>>

(***************************************************************************)
(* Bounds of the model.                                                    *)
(***************************************************************************)
MaxBooks == 1        \* rows the running server may insert
MaxTicks == 1        \* clock steps
MaxBulk == 25        \* size of the large seeded table
MaxOffset == 4       \* listing offsets 0..MaxOffset besides the page starts
MaxPage == 3         \* listing pages 1..MaxPage

(***************************************************************************)
(* The database module: the health check query() starts as a side effect.  *)
(* performHealthCheck is not awaited; its ping is taken to be answered at  *)
(* once, so the status is written in the step that starts it.              *)
(***************************************************************************)
PoolSize == 2        \* connections the pool may open
MaxCreates == 2      \* createBook calls of one behaviour

\* the pool before its first statement: no connection is open; lastInsertId
\* is what LAST_INSERT_ID() answers on the connection
NoConnections ==
    [k \in 1..PoolSize |-> [open |-> FALSE, busy |-> FALSE, lastInsertId |-> 0]]

HEALTH_CHECK_INTERVAL == 30000

\* now - lastHealthCheck > HEALTH_CHECK_INTERVAL
HealthCheckDue == now - lastHealthCheck > HEALTH_CHECK_INTERVAL

\* performHealthCheck: the status the check leaves, given the old one
PerformHealthCheck(connected, up) == up

\* the head of query(): start a health check when one is due
QueryCalled ==
    IF HealthCheckDue
    THEN /\ lastHealthCheck' = now
         /\ isConnected' = PerformHealthCheck(isConnected, dbUp)
    ELSE UNCHANGED <<isConnected, lastHealthCheck>>

\* a step in which query() is not called
NoQuery == UNCHANGED <<isConnected, lastHealthCheck>>

(***************************************************************************)
(* Strings.                                                                *)
(***************************************************************************)
UpperToLower == [D |-> "d", U |-> "u", H |-> "h", S |-> "s", F |-> "f"]

\* String.prototype.toLowerCase / the case folding of ILIKE, per character
LowerChar(c) == IF c \in DOMAIN UpperToLower THEN UpperToLower[c] ELSE c

LowerStr(s) == [i \in 1..Len(s) |-> LowerChar(s[i])]

\* SQL LIKE: % matches any run of characters, _ any one character
RECURSIVE LikeMatch(_, _)
LikeMatch(p, s) ==
    IF p = <<>> THEN s = <<>>
    ELSE IF Head(p) = "%"
         THEN LikeMatch(Tail(p), s) \/ (s # <<>> /\ LikeMatch(p, Tail(s)))
         ELSE /\ s # <<>>
              /\ (Head(p) = "_" \/ Head(p) = Head(s))
              /\ LikeMatch(Tail(p), Tail(s))

\* PostgreSQL ILIKE: LIKE after case folding of both sides
ILikeMatch(p, s) == LikeMatch(LowerStr(p), LowerStr(s))

\* `%${x}%`
Wrap(x) == <<"%">> \o x \o <<"%">>

(***************************************************************************)
(* BookService.getAllBooks: the statement builder.                         *)
(* A placeholder is [n, for, k]: n is the index of `$n` (0 for MySQL's     *)
(* `?`), and (for, k) names the value the builder means it to stand for.   *)
(* A parameter is [for, k, v].  A condition records the number of          *)
(* placeholders that precede it in the statement text (base).              *)
(***************************************************************************)
DEFAULT_LIMIT == 10
DEFAULT_OFFSET == 0

IsMySQL(t) == t = "mysql"

\* `${isMySQL ? '?' : `$${paramIndex}`}`
Placeholder(my, paramIndex, for, k) ==
    [n |-> IF my THEN 0 ELSE paramIndex, for |-> for, k |-> k]

NewBuilder == [conds |-> <<>>, params |-> <<>>, paramIndex |-> 1, nocc |-> 0]

\* if (search) { ... }
AddSearch(st, search, my) ==
    IF search.kind = "scalar" /\ search.v # <<>>
    THEN LET ph == Placeholder(my, st.paramIndex, "search", 0)
         IN  [conds |-> Append(st.conds,
                          [kind |-> "search", col |-> "title,author",
                           ph |-> <<ph, ph>>, base |-> st.nocc]),
              params |-> Append(st.params,
                          [for |-> "search", k |-> 0, v |-> Wrap(search.v)]),
              paramIndex |-> st.paramIndex + 1,
              nocc |-> st.nocc + 2]
    ELSE st

\* if (genre) { if (Array.isArray(genre) && genre.length > 0) {...}
\*              else if (typeof genre === 'string') {...} }   (same for author)
AddMulti(st, f, col, my) ==
    IF f.kind = "array" /\ Len(f.v) > 0
    THEN [conds |-> Append(st.conds,
                      [kind |-> "in", col |-> col,
                       ph |-> [j \in 1..Len(f.v) |->
                                 Placeholder(my, st.paramIndex + j - 1, col, j)],
                       base |-> st.nocc]),
          params |-> st.params \o [j \in 1..Len(f.v) |->
                                     [for |-> col, k |-> j, v |-> f.v[j]]],
          paramIndex |-> IF my THEN st.paramIndex ELSE st.paramIndex + Len(f.v),
          nocc |-> st.nocc + Len(f.v)]
    ELSE IF f.kind = "scalar" /\ f.v # <<>>
    THEN [conds |-> Append(st.conds,
                      [kind |-> "ilike", col |-> col,
                       ph |-> <<Placeholder(my, st.paramIndex, col, 0)>>,
                       base |-> st.nocc]),
          params |-> Append(st.params,
                      [for |-> col, k |-> 0, v |-> Wrap(f.v)]),
          paramIndex |-> st.paramIndex + 1,
          nocc |-> st.nocc + 1]
    ELSE st

\* if (year) { ... }: undefined and 0 are both falsy
AddYear(st, year, my) ==
    IF year # {} /\ year # {0}
    THEN [conds |-> Append(st.conds,
                      [kind |-> "eq", col |-> "published_year",
                       ph |-> <<Placeholder(my, st.paramIndex, "year", 0)>>,
                       base |-> st.nocc]),
          params |-> st.params \o
                       [j \in 1..1 |-> [for |-> "year", k |-> 0,
                                        v |-> CHOOSE y \in year : TRUE]],
          paramIndex |-> st.paramIndex + 1,
          nocc |-> st.nocc + 1]
    ELSE st

\* const { ..., limit = 10, offset = 0 } = filters
LimitOf(filters) == IF filters.limit = {} THEN DEFAULT_LIMIT
                    ELSE CHOOSE l \in filters.limit : TRUE
OffsetOf(filters) == IF filters.offset = {} THEN DEFAULT_OFFSET
                     ELSE CHOOSE o \in filters.offset : TRUE

\* the statement text (as its conditions and placeholders) and limitParams
BuildQuery(filters, my) ==
    LET s1 == AddSearch(NewBuilder, filters.search, my)
        s2 == AddMulti(s1, filters.genre, "genre", my)
        s3 == AddMulti(s2, filters.author, "author", my)
        s4 == AddYear(s3, filters.year, my)
    IN  [conds |-> s4.conds,
         limitPh |-> Placeholder(my, s4.paramIndex, "limit", 0),
         offsetPh |-> Placeholder(my, s4.paramIndex + 1, "offset", 0),
         params |-> s4.params \o
                    <<[for |-> "limit", k |-> 0, v |-> LimitOf(filters)],
                      [for |-> "offset", k |-> 0, v |-> OffsetOf(filters)]>>]

(***************************************************************************)
(* The engine's side of a statement.                                       *)
(***************************************************************************)
RECURSIVE FlatPh(_)
FlatPh(conds) == IF conds = <<>> THEN <<>>
                 ELSE Head(conds).ph \o FlatPh(Tail(conds))

\* every placeholder of the statement, in the order of the text
Occurrences(stmt) == FlatPh(stmt.conds) \o <<stmt.limitPh, stmt.offsetPh>>

UsesILike(stmt) ==
    \E i \in 1..Len(stmt.conds) : stmt.conds[i].kind \in {"search", "ilike"}

\* mysql2 execute(): the k-th `?` takes params[k], and the counts must agree;
\* MySQL has no ILIKE operator.  pg query(): `$n` takes params[n], and the
\* parameters supplied must be exactly $1..$N.
StatementOk(stmt, my) ==
    LET occ == Occurrences(stmt)
    IN  IF my
        THEN Len(occ) = Len(stmt.params) /\ ~UsesILike(stmt)
        ELSE {occ[i].n : i \in 1..Len(occ)} = 1..Len(stmt.params)

\* the parameter the engine binds to the k-th placeholder of the text
Bound(stmt, my, k) ==
    LET occ == Occurrences(stmt)
    IN  IF my THEN stmt.params[k] ELSE stmt.params[occ[k].n]

\* `=` and IN on a VARCHAR: MySQL's utf8mb4_unicode_ci ignores case
SqlEq(a, b, my) == IF my THEN LowerStr(a) = LowerStr(b) ELSE a = b

TextOf(b, col) == IF col = "genre" THEN b.genre ELSE {b.author}

CondHolds(c, b, stmt, my) ==
    LET val(j) == Bound(stmt, my, c.base + j).v
    IN  CASE c.kind = "search" ->
               ILikeMatch(val(1), b.title) \/ ILikeMatch(val(2), b.author)
          [] c.kind = "ilike" ->
               \E t \in TextOf(b, c.col) : ILikeMatch(val(1), t)
          [] c.kind = "in" ->
               \E t \in TextOf(b, c.col) :
                   \E j \in 1..Len(c.ph) : SqlEq(t, val(j), my)
          [] c.kind = "eq" ->
               \E y \in b.published_year : y = val(1)

\* the rows the WHERE clause keeps
WhereRows(stmt, table, my) ==
    {b \in table : \A i \in 1..Len(stmt.conds) : CondHolds(stmt.conds[i], b, stmt, my)}

\* ORDER BY created_at DESC: every order of the rows with non-increasing
\* created_at; rows with equal created_at come in an order the engine picks
RECURSIVE OrdersDesc(_)
OrdersDesc(S) ==
    IF S = {} THEN {<<>>}
    ELSE UNION {{<<b>> \o t : t \in OrdersDesc(S \ {b})} :
                b \in {x \in S : \A y \in S : y.created_at <= x.created_at}}

\* LIMIT l OFFSET o
Slice(ord, l, o) ==
    IF o >= Len(ord) THEN <<>>
    ELSE SubSeq(ord, o + 1, IF o + l > Len(ord) THEN Len(ord) ELSE o + l)

\* SELECT books.*, COUNT( * ) OVER() as total_count ... : the result rows for
\* one order `ord` of the kept rows
SelectRows(stmt, my, ord) ==
    LET n == Len(Occurrences(stmt))
        l == Bound(stmt, my, n - 1).v
        o == Bound(stmt, my, n).v
        page == Slice(ord, l, o)
    IN  [i \in 1..Len(page) |-> [book |-> page[i], total_count |-> Len(ord)]]

(***************************************************************************)
(* BookService.getAllBooks and the query wrapper.                          *)
(***************************************************************************)
\* query(text, params): the rows, or the driver's rejection of the statement
Query(stmt, my, rows) ==
    IF StatementOk(stmt, my) THEN [ok |-> TRUE, rows |-> rows]
    ELSE [ok |-> FALSE, rows |-> <<>>]

\* Math.floor(offset / limit) + 1
PageOf(offset, limit) == (offset \div limit) + 1

\* Math.floor in place of Math.ceil
TotalPagesOf_Floor(total, limit) == total \div limit

\* Math.ceil(total / limit)
TotalPagesOf(total, limit) == (total + limit - 1) \div limit

\* result.rows.length > 0 ? parseInt(result.rows[0].total_count) : 0
TotalOf(rows) == IF Len(rows) > 0 THEN rows[1].total_count ELSE 0

\* what getAllBooks(filters) resolves to, given the query's outcome
GetAllBooks(filters, result) ==
    IF ~result.ok THEN [kind |-> "throw"]
    ELSE LET limit == LimitOf(filters)
             page == PageOf(OffsetOf(filters), limit)
             total == TotalOf(result.rows)
             totalPages == TotalPagesOf(total, limit)
         IN  [kind |-> "ok",
              data |-> [i \in 1..Len(result.rows) |-> result.rows[i].book],
              total |-> total,
              page |-> page,
              totalPages |-> totalPages,
              hasNext |-> page < totalPages,
              hasPrev |-> page > 1]

\* the outcomes of the combined query for the statement: one per order the
\* engine may give rows of equal created_at
QueryOutcomes(stmt, table, my) ==
    IF StatementOk(stmt, my)
    THEN {Query(stmt, my, SelectRows(stmt, my, ord)) :
            ord \in OrdersDesc(WhereRows(stmt, table, my))}
    ELSE {Query(stmt, my, <<>>)}

(***************************************************************************)
(* Inputs of the listing.                                                  *)
(***************************************************************************)
Absent == [kind |-> "absent", v |-> <<>>]
Scalar(x) == [kind |-> "scalar", v |-> x]
Array(x) == [kind |-> "array", v |-> x]

SearchInputs == {Absent, Scalar(<<>>), Scalar(<<"d", "u">>), Scalar(<<"_">>)}
GenreInputs == {Absent, Scalar(<<"s">>), Array(<<>>),
                Array(<< <<"S", "F">>, <<"F">> >>)}
AuthorInputs == {Absent, Scalar(<<"h">>), Array(<< <<"H", "u">> >>)}
YearInputs == {{}, {0}, {1965}, {1966}}
LimitInputs == {{}} \cup {{l} : l \in 1..MaxPage}
OffsetInputs(limit) ==
    {{}} \cup {{o} : o \in 0..MaxOffset}
         \cup {{(p - 1) * limit} : p \in 1..MaxPage}

FilterInputs ==
    UNION {[search : SearchInputs, genre : GenreInputs, author : AuthorInputs,
            year : YearInputs, limit : {l},
            offset : OffsetInputs(IF l = {} THEN DEFAULT_LIMIT
                                  ELSE CHOOSE x \in l : TRUE)] :
           l \in LimitInputs}

\* stored rows: a few books with equal created_at (one INSERT seeds several
\* rows with the same CURRENT_TIMESTAMP), NULL genre and year, mixed case
Pool ==
    {[id |-> 1, title |-> <<"D", "u">>, author |-> <<"H", "u">>,
      genre |-> {<<"S", "F">>}, published_year |-> {1965}, created_at |-> 3],
     [id |-> 2, title |-> <<"S", "h">>, author |-> <<"d", "u">>,
      genre |-> {<<"s", "f">>}, published_year |-> {1966}, created_at |-> 2],
     [id |-> 3, title |-> <<"H", "_">>, author |-> <<"F">>,
      genre |-> {}, published_year |-> {}, created_at |-> 2],
     [id |-> 4, title |-> <<"F", "u">>, author |-> <<"H", "u">>,
      genre |-> {<<"F">>}, published_year |-> {1965}, created_at |-> 2]}

Bulk(n) ==
    {[id |-> i, title |-> <<"D">>, author |-> <<"H">>, genre |-> {<<"S">>},
      published_year |-> {1965}, created_at |-> i] : i \in 1..n}

Tables == (SUBSET Pool) \cup {Bulk(MaxBulk)}

Engines == {"postgresql", "mysql"}

NoCall == [called |-> FALSE]
NoSession == [active |-> FALSE]

(***************************************************************************)
(* SpecList: getAllBooks applied to every input over every stored table.   *)
(***************************************************************************)
InitList ==
    /\ dbType \in Engines
    /\ pool = NoConnections
    /\ isConnected = TRUE
    /\ dbUp = TRUE
    /\ lastHealthCheck = 0
    /\ books \in Tables
    /\ nextBookId = 1 + Cardinality(books)
    /\ users = {}
    /\ statsCache = {}
    /\ now = 0
    /\ calls = {}
    /\ lastResp = [route |-> "none"]
    /\ listed = NoCall
    /\ session = NoSession

\* one getAllBooks call per behaviour: the call reads and changes nothing
ListBooks ==
    /\ ~listed.called
    /\ \E filters \in FilterInputs :
        LET my == IsMySQL(dbType)
            stmt == BuildQuery(filters, my)
        IN  \E result \in QueryOutcomes(stmt, books, my) :
               /\ listed' = [called |-> TRUE, filters |-> filters, stmt |-> stmt,
                             res |-> GetAllBooks(filters, result)]
               /\ QueryCalled
               /\ UNCHANGED <<dbType, pool, dbUp, books, nextBookId, users,
                              statsCache, now, calls, lastResp, session>>

NextList == ListBooks

SpecList == InitList /\ [][NextList]_vars

(***************************************************************************)
(* Claims about the listing, checked under SpecList.                       *)
(***************************************************************************)
\* the call has been made and returned a result
Returned == listed.called /\ listed.res.kind = "ok"

\* C1: the total that getAllBooks returns is the number of rows a separate
\* COUNT query over the same WHERE clause counts, whatever limit and offset
\* are (also for a page past the last matching row).
C1_TotalIsCountOfWhere ==
    Returned =>
        listed.res.total =
            Cardinality(WhereRows(listed.stmt, books, IsMySQL(dbType)))

\* C3: page = floor(offset/limit)+1, totalPages = ceil(total/limit),
\* hasNext = (page < totalPages), hasPrev = (page > 1), at most limit rows;
\* with 25 matching books and limit 10, page 3 holds the last 5 books,
\* hasNext = false and hasPrev = true.
C3_PageArithmetic ==
    Returned =>
        LET r == listed.res
            limit == LimitOf(listed.filters)
            offset == OffsetOf(listed.filters)
            matching == WhereRows(listed.stmt, books, IsMySQL(dbType))
        IN  /\ r.page * limit <= offset + limit /\ offset < r.page * limit
            /\ r.totalPages * limit >= r.total
            /\ (r.totalPages - 1) * limit < r.total \/ r.total = 0
            /\ (r.total = 0 => r.totalPages = 0)
            /\ r.hasNext = (r.page < r.totalPages)
            /\ r.hasPrev = (r.page > 1)
            /\ Len(r.data) <= limit
            /\ (Cardinality(matching) = 25 /\ limit = 10 /\ offset = 20) =>
                   /\ r.page = 3
                   /\ Len(r.data) = 5
                   /\ {r.data[i] : i \in 1..Len(r.data)} =
                        {b \in matching :
                           Cardinality({c \in matching :
                                          c.created_at > b.created_at}) >= 20}
                   /\ ~r.hasNext
                   /\ r.hasPrev

\* a listing of 25 matching books, limit 10, page 3
C3_Witness ==
    /\ Returned
    /\ Cardinality(WhereRows(listed.stmt, books, IsMySQL(dbType))) = 25
    /\ LimitOf(listed.filters) = 10
    /\ OffsetOf(listed.filters) = 20
    /\ Len(listed.res.data) = 5

\* C4: the listing holds exactly the books that satisfy every supplied
\* predicate: no returned book fails one, and the first page, when it is
\* large enough, holds every book that satisfies them all.
C4_ExactlyTheMatchingBooks ==
    LET ContainsCI(text, sub) ==
            \E i \in 0..(Len(text) - Len(sub)) :
                LowerStr(SubSeq(text, i + 1, i + Len(sub))) = LowerStr(sub)
        MultiSatisfied(f, texts) ==
            CASE f.kind = "absent" -> TRUE
              [] f.kind = "scalar" ->
                   f.v = <<>> \/ \E t \in texts : ContainsCI(t, f.v)
              [] f.kind = "array" ->
                   Len(f.v) = 0 \/ \E t \in texts : \E j \in 1..Len(f.v) : f.v[j] = t
        Satisfies(b, f) ==
            /\ \/ f.search.kind = "absent"
               \/ f.search.v = <<>>
               \/ ContainsCI(b.title, f.search.v)
               \/ ContainsCI(b.author, f.search.v)
            /\ MultiSatisfied(f.genre, b.genre)
            /\ MultiSatisfied(f.author, {b.author})
            /\ (f.year = {} \/ b.published_year = f.year)
        sat == {b \in books : Satisfies(b, listed.filters)}
        data == {listed.res.data[i] : i \in 1..Len(listed.res.data)}
    IN  Returned =>
            /\ data \subseteq sat
            /\ (OffsetOf(listed.filters) = 0
                  /\ Cardinality(sat) <= LimitOf(listed.filters))
                 => data = sat

\* C6: the statement binds its parameters consistently: PostgreSQL's $n are
\* exactly 1..N, MySQL's `?` are N, every placeholder gets the value meant
\* for it, and limit and offset are bound last.
C6_ParametersBoundConsistently ==
    listed.called =>
        LET stmt == listed.stmt
            my == IsMySQL(dbType)
            occ == Occurrences(stmt)
            N == Len(stmt.params)
        IN  /\ IF my THEN Len(occ) = N
                     ELSE {occ[i].n : i \in 1..Len(occ)} = 1..N
            /\ \A i \in 1..Len(occ) :
                  LET k == IF my THEN i ELSE occ[i].n
                  IN  /\ k \in 1..N
                      /\ stmt.params[k].for = occ[i].for
                      /\ stmt.params[k].k = occ[i].k
            /\ stmt.params[N - 1].for = "limit"
            /\ stmt.params[N].for = "offset"

(***************************************************************************)
(* SpecPages: a client of GET /api/books fetches page 1, 2, ... of one     *)
(* listing until the page number reaches totalPages; the table does not    *)
(* change meanwhile.                                                       *)
(***************************************************************************)
WalkInputs ==
    [search : SearchInputs, genre : GenreInputs, author : AuthorInputs,
     year : YearInputs, limit : {{l} : l \in 1..MaxPage}]

\* const offset = (page - 1) * limit
PageFilters(f, page) ==
    [search |-> f.search, genre |-> f.genre, author |-> f.author,
     year |-> f.year, limit |-> f.limit,
     offset |-> {(page - 1) * LimitOf([limit |-> f.limit])}]

StartWalk ==
    /\ ~session.active
    /\ \E f \in WalkInputs :
          session' = [active |-> TRUE, filters |-> f, page |-> 1, acc |-> <<>>,
                      done |-> FALSE, failed |-> FALSE]
    /\ UNCHANGED <<dbType, pool, dbUp, isConnected, lastHealthCheck, books, nextBookId, users, statsCache,
                   now, calls, lastResp, listed>>

FetchPage ==
    /\ session.active
    /\ ~session.done
    /\ LET my == IsMySQL(dbType)
           filters == PageFilters(session.filters, session.page)
           stmt == BuildQuery(filters, my)
       IN  \E result \in QueryOutcomes(stmt, books, my) :
              LET res == GetAllBooks(filters, result)
              IN  session' =
                    IF res.kind = "throw"
                    THEN [session EXCEPT !.done = TRUE, !.failed = TRUE]
                    ELSE [session EXCEPT
                            !.acc = @ \o res.data,
                            !.page = @ + 1,
                            !.done = session.page >= res.totalPages]
    /\ QueryCalled
    /\ UNCHANGED <<dbType, pool, dbUp, books, nextBookId, users, statsCache,
                   now, calls, lastResp, listed>>

NextPages == StartWalk \/ FetchPage

SpecPages == InitList /\ [][NextPages]_vars

\* C2: pages 1..totalPages of an unchanged table, concatenated, hold every
\* matching book exactly once, in non-increasing created_at order, also when
\* books share a created_at value.
C2_PagesPartitionTheListing ==
    (session.active /\ session.done /\ ~session.failed) =>
        LET acc == session.acc
            my == IsMySQL(dbType)
            matching == WhereRows(BuildQuery(PageFilters(session.filters, 1), my),
                                  books, my)
        IN  /\ \A i, j \in 1..Len(acc) : i # j => acc[i] # acc[j]
            /\ {acc[i] : i \in 1..Len(acc)} = matching
            /\ \A i \in 1..(Len(acc) - 1) :
                  acc[i].created_at >= acc[i + 1].created_at

(***************************************************************************)
(* Session tokens and the middleware.                                      *)
(* A token is [wellFormed, payload, exp, sig]; the signature is the        *)
(* symbolic MAC of (payload, exp) under a key.  exp is in seconds.         *)
(***************************************************************************)
JWT_SECRET == "JWT_SECRET"
JWT_EXPIRES_IN == 86400
STATS_CACHE_TTL == 60000

\* the clock advances in steps of one cache lifetime
TickMs == STATS_CACHE_TTL

Sign(payload, exp, key) == [key |-> key, over |-> <<payload, exp>>]

\* jwt.sign(jwtPayload, JWT_SECRET, { expiresIn }) at time t
GenerateToken(payload, t) ==
    LET exp == (t \div 1000) + JWT_EXPIRES_IN
    IN  [wellFormed |-> TRUE, payload |-> payload, exp |-> exp,
         sig |-> Sign(payload, exp, JWT_SECRET)]

\* verifyToken without the expiry check of jwt.verify
VerifyToken_IgnoresExpiry(token, t) ==
    IF /\ token.wellFormed
       /\ token.sig = Sign(token.payload, token.exp, JWT_SECRET)
    THEN {token.payload} ELSE {}

\* jwt.verify(token, JWT_SECRET), null ({}) when it throws
VerifyToken(token, t) ==
    IF /\ token.wellFormed
       /\ token.sig = Sign(token.payload, token.exp, JWT_SECRET)
       /\ (t \div 1000) < token.exp
    THEN {token.payload} ELSE {}

\* authHeader && authHeader.split(' ')[1]; a header is its split parts,
\* <<>> when the request has none
HeaderToken(header) ==
    IF Len(header) >= 2 THEN {header[2]} ELSE {}

\* authenticateToken answering 403 where the code answers 401
AuthenticateToken_AlwaysForbidden(header, t) ==
    LET token == HeaderToken(header)
        decoded == UNION {VerifyToken(tk, t) : tk \in token}
    IN  IF decoded = {} THEN [pass |-> FALSE, status |-> 403, user |-> {},
                              sent |-> 1, nexts |-> 0]
        ELSE [pass |-> TRUE, status |-> 0, user |-> decoded,
              sent |-> 0, nexts |-> 1]

\* authenticateToken without its `if (!decoded)` branch
AuthenticateToken_IgnoresVerdict(header, t) ==
    LET token == HeaderToken(header)
    IN  IF token = {} THEN [pass |-> FALSE, status |-> 401, user |-> {},
                                sent |-> 1, nexts |-> 0]
        ELSE [pass |-> TRUE, status |-> 0,
              user |-> UNION {VerifyToken(tk, t) : tk \in token},
              sent |-> 0, nexts |-> 1]

AuthenticateToken(header, t) ==
    LET token == HeaderToken(header)
        decoded == UNION {VerifyToken(tk, t) : tk \in token}
    IN  IF token = {} THEN [pass |-> FALSE, status |-> 401, user |-> {},
                                sent |-> 1, nexts |-> 0]
        ELSE IF decoded = {} THEN [pass |-> FALSE, status |-> 403, user |-> {},
                                   sent |-> 1, nexts |-> 0]
        ELSE [pass |-> TRUE, status |-> 0, user |-> decoded,
              sent |-> 0, nexts |-> 1]

\* requireAdmin without its role comparison
RequireAdmin_AnyAuthenticated(user) ==
    IF user = {} THEN [pass |-> FALSE, status |-> 401]
    ELSE [pass |-> TRUE, status |-> 0]

RequireAdmin(user) ==
    IF user = {} THEN [pass |-> FALSE, status |-> 401]
    ELSE IF \E u \in user : u.role # "admin" THEN [pass |-> FALSE, status |-> 403]
    ELSE [pass |-> TRUE, status |-> 0]

\* requireDatabase letting every request through
RequireDatabase_AlwaysNext(connected) == [pass |-> TRUE, status |-> 0]

\* requireDatabase
RequireDatabase(connected) ==
    IF connected THEN [pass |-> TRUE, status |-> 0]
    ELSE [pass |-> FALSE, status |-> 503]

(***************************************************************************)
(* Requests the clients send.                                              *)
(***************************************************************************)
AdminPayload == [userId |-> 1, role |-> "admin"]
OtherAdminPayload == [userId |-> 2, role |-> "admin"]
UserPayload == [userId |-> 3, role |-> "user"]

\* issued a day minus one tick before the clock starts: expires at one tick
ShortLived == [wellFormed |-> TRUE, payload |-> UserPayload,
               exp |-> TickMs \div 1000,
               sig |-> Sign(UserPayload, TickMs \div 1000, JWT_SECRET)]
\* a user's token whose payload was rewritten to role admin
Tampered == [GenerateToken(UserPayload, 0) EXCEPT !.payload = [userId |-> 3, role |-> "admin"]]
\* signed with another key
Forged == [GenerateToken(AdminPayload, 0) EXCEPT
             !.sig = Sign(AdminPayload, JWT_EXPIRES_IN, "other key")]
Malformed == [wellFormed |-> FALSE, payload |-> AdminPayload, exp |-> JWT_EXPIRES_IN,
              sig |-> Sign(AdminPayload, JWT_EXPIRES_IN, JWT_SECRET)]

TokenInputs == {GenerateToken(AdminPayload, 0), GenerateToken(OtherAdminPayload, 0),
                GenerateToken(UserPayload, 0), ShortLived, Tampered, Forged, Malformed}

HeaderInputs == {<<>>, <<"Bearer">>} \cup {<<"Bearer", tk>> : tk \in TokenInputs}

\* the Authorization headers tried on the book routes, which do not look at
\* the role
BookHeaderInputs == {<<>>} \cup {<<"Bearer", tk>> :
                                  tk \in {GenerateToken(AdminPayload, 0), ShortLived, Forged}}

NoField == {}
CreateBodies ==
    {[title |-> {<<"D", "u">>}, author |-> {<<"H", "u">>},
      published_year |-> {1965}, genre |-> {<<"S", "F">>}],
     [title |-> NoField, author |-> {<<"H", "u">>},
      published_year |-> NoField, genre |-> NoField]}
UpdateBodies ==
    {[title |-> NoField, author |-> NoField, published_year |-> NoField, genre |-> NoField],
     [title |-> {<<"S", "h">>}, author |-> NoField, published_year |-> NoField, genre |-> NoField],
     [title |-> NoField, author |-> NoField, published_year |-> {999}, genre |-> NoField]}

\* new Date().getFullYear() for the clock value t (years of 365 days)
FullYear(t) == 1970 + (t \div 1000) \div (365 * 24 * 3600)

\* validateBook; the validator chains are built once, when the routes module
\* loads (t is the clock then)
ValidateBook(body, t) ==
    /\ \E x \in body.title : Len(x) >= 1
    /\ \E x \in body.author : Len(x) >= 1
    /\ \A y \in body.published_year : y >= 1000 /\ y <= FullYear(t)
    /\ \A g \in body.genre : Len(g) <= 100

\* validateBookUpdate: every field optional
ValidateBookUpdate(body, t) ==
    /\ \A x \in body.title : Len(x) >= 1
    /\ \A x \in body.author : Len(x) >= 1
    /\ \A y \in body.published_year : y >= 1000 /\ y <= FullYear(t)
    /\ \A g \in body.genre : Len(g) <= 100

\* validateId / validateUserId: param('id').isInt({ min: 1 })
ValidateId(id) == id >= 1

BookFields == {"title", "author", "published_year", "genre"}

\* the fields of bookData that are not undefined
SuppliedFields(body) == {f \in BookFields : body[f] # NoField}

(***************************************************************************)
(* BookService: the statements of create / update / delete / stats.        *)
(***************************************************************************)
MaxInFlight == 2

SeedBook == [id |-> 1, title |-> <<"D", "u">>, author |-> <<"H", "u">>,
             genre |-> {<<"S", "F">>}, published_year |-> {1965}, created_at |-> 0]

\* INSERT INTO books (title, author, published_year, genre) VALUES (...)
InsertedRow(id, data, t) ==
    [id |-> id,
     title |-> CHOOSE x \in data.title : TRUE,
     author |-> CHOOSE x \in data.author : TRUE,
     genre |-> data.genre,
     published_year |-> data.published_year,
     created_at |-> t]

\* UPDATE books SET <supplied fields> WHERE id = ...
UpdatedRow(b, data) ==
    [id |-> b.id,
     title |-> IF data.title = NoField THEN b.title ELSE CHOOSE x \in data.title : TRUE,
     author |-> IF data.author = NoField THEN b.author ELSE CHOOSE x \in data.author : TRUE,
     genre |-> IF data.genre = NoField THEN b.genre ELSE data.genre,
     published_year |-> IF data.published_year = NoField THEN b.published_year
                        ELSE data.published_year,
     created_at |-> b.created_at]

UpdateRows(table, id, data) ==
    {IF b.id = id THEN UpdatedRow(b, data) ELSE b : b \in table}

DeleteRows(table, id) == {b \in table : b.id # id}

RowsWithId(table, id) == {b \in table : b.id = id}

\* what query() resolves to for a DELETE: pg's result has the RETURNING rows;
\* the MySQL branch wraps the driver's ResultSetHeader as { rows }
DeleteResult(my, deleted) ==
    IF my THEN [rows |-> [affectedRows |-> Cardinality(deleted)]]
    ELSE [rows |-> deleted]

\* deleteBook's `success`: (result as any).affectedRows > 0 under MySQL, with
\* undefined > 0 false; result.rows.length > 0 under PostgreSQL
DeleteSuccess(my, result) ==
    IF my THEN "affectedRows" \in DOMAIN result /\ result.affectedRows > 0
    ELSE Cardinality(result.rows) > 0

\* INTERVAL '30 days', in seconds
THIRTY_DAYS == 30 * 24 * 3600

\* the statistics query
Stats(table, t) ==
    [totalBooks |-> Cardinality(table),
     totalAuthors |-> Cardinality({b.author : b \in table}),
     totalGenres |-> Cardinality(UNION {b.genre : b \in table}),
     recentBooks |-> Cardinality({b \in table : 
                        b.created_at \div 1000 >= t \div 1000 - THIRTY_DAYS})]

\* the cache test without the age comparison
CacheValid_NeverExpires(cache, t) == cache # {}

\* this.statsCache && (now - this.statsCache.timestamp) < this.STATS_CACHE_TTL
CacheValid(cache, t) ==
    cache # {} /\ \A c \in cache : (t - c.timestamp) < STATS_CACHE_TTL

\* what updateBook does before its first await
UpdateBookStart(data) ==
    IF SuppliedFields(data) = {}
    THEN [kind |-> "throw", message |-> "No fields to update"]
    ELSE [kind |-> "query"]

(***************************************************************************)
(* Spec: the book routes.  A handler runs to its first await in one step   *)
(* (middleware, validation, the synchronous head of the service method);   *)
(* each statement it awaits is executed by the engine in a later step.     *)
(***************************************************************************)
InitUsers ==
    {[id |-> 1, username |-> "admin", email |-> "admin@x", role |-> "admin"],
     [id |-> 2, username |-> "root", email |-> "root@x", role |-> "admin"],
     [id |-> 3, username |-> "reader", email |-> "reader@x", role |-> "user"]}

NoResp == [route |-> "none", status |-> 0]

Init ==
    /\ dbType \in Engines
    /\ pool = NoConnections
    /\ isConnected = TRUE
    /\ dbUp = TRUE
    /\ lastHealthCheck = 0
    /\ books = {SeedBook}
    /\ nextBookId = 2
    /\ users = InitUsers
    /\ statsCache = {}
    /\ now = 0
    /\ calls = {}
    /\ lastResp = NoResp
    /\ listed = NoCall
    /\ session = NoSession

\* the handlers suspended at an await; a new one is admitted while fewer than
\* MaxInFlight are pending
CanStart(call) == Cardinality(calls) < MaxInFlight /\ call \notin calls

InFlightCreates == Cardinality({c \in calls : c.op = "create"})

\* the verdict of the two middlewares every mutating book route starts with
Gate(header) ==
    LET db == RequireDatabase(isConnected)
        auth == AuthenticateToken(header, now)
    IN  IF ~db.pass THEN [pass |-> FALSE, status |-> db.status]
        ELSE IF ~auth.pass THEN [pass |-> FALSE, status |-> auth.status]
        ELSE [pass |-> TRUE, status |-> 0]

\* whether verifyToken accepts the token the request carries, at time t
Accepted(header, t) == \E tk \in HeaderToken(header) : VerifyToken(tk, t) # {}

\* the payload verifyToken yields for the token of the header, {} if none
Caller(header, t) == UNION {VerifyToken(tk, t) : tk \in HeaderToken(header)}

\* the role claim of that payload
RolesOf(header, t) == {u.role : u \in Caller(header, t)}

BookResp(route, status, authed, found, nfields) ==
    [route |-> route, status |-> status, authed |-> authed, found |-> found,
     nfields |-> nfields]

\* POST /api/books
PostBook ==
    /\ UNCHANGED <<dbType, pool, dbUp, books, nextBookId, users, now, listed, session>>
    /\ \E header \in BookHeaderInputs, body \in CreateBodies :
        LET gate == Gate(header)
            authed == Accepted(header, now)
            route == "POST /api/books"
        IN  IF ~gate.pass
            THEN /\ lastResp' = BookResp(route, gate.status, authed, FALSE, 0)
                 /\ UNCHANGED <<statsCache, calls>>
                 /\ NoQuery
            ELSE IF ~ValidateBook(body, 0)
            THEN /\ lastResp' = BookResp(route, 400, authed, FALSE, 0)
                 /\ UNCHANGED <<statsCache, calls>>
                 /\ NoQuery
            ELSE LET call == [op |-> "create", pc |-> "insert", data |-> body,
                              authed |-> authed,
                              roles |-> RolesOf(header, now)]
                 IN  /\ CanStart(call)
                     /\ (nextBookId - 2) + InFlightCreates < MaxBooks
                     /\ statsCache' = {}
                     /\ calls' = calls \cup {call}
                     /\ UNCHANGED lastResp
                     /\ QueryCalled

\* PUT /api/books/:id
PutBook ==
    /\ UNCHANGED <<dbType, pool, dbUp, books, nextBookId, users, now, listed, session>>
    /\ \E header \in BookHeaderInputs, id \in 0..MaxBooks, body \in UpdateBodies :
        LET gate == Gate(header)
            authed == Accepted(header, now)
            route == "PUT /api/books/:id"
            n == Cardinality(SuppliedFields(body))
        IN  IF ~gate.pass
            THEN /\ lastResp' = BookResp(route, gate.status, authed, FALSE, n)
                 /\ UNCHANGED <<statsCache, calls>>
                 /\ NoQuery
            ELSE IF ~(ValidateId(id) /\ ValidateBookUpdate(body, 0))
            THEN /\ lastResp' = BookResp(route, 400, authed, FALSE, n)
                 /\ UNCHANGED <<statsCache, calls>>
                 /\ NoQuery
            ELSE IF UpdateBookStart(body).kind = "throw"
            THEN \* the route's catch block
                 /\ statsCache' = {}
                 /\ lastResp' = BookResp(route, 500, authed, FALSE, n)
                 /\ UNCHANGED calls
                 /\ NoQuery
            ELSE LET call == [op |-> "update", pc |-> "update", id |-> id,
                              data |-> body, authed |-> authed,
                              roles |-> RolesOf(header, now)]
                 IN  /\ CanStart(call)
                     /\ statsCache' = {}
                     /\ calls' = calls \cup {call}
                     /\ UNCHANGED lastResp
                     /\ QueryCalled

\* DELETE /api/books/:id
DeleteBook ==
    /\ UNCHANGED <<dbType, pool, dbUp, books, nextBookId, users, now, listed, session>>
    /\ \E header \in BookHeaderInputs, id \in 0..MaxBooks :
        LET gate == Gate(header)
            authed == Accepted(header, now)
            route == "DELETE /api/books/:id"
        IN  IF ~gate.pass
            THEN /\ lastResp' = BookResp(route, gate.status, authed, FALSE, 0)
                 /\ UNCHANGED <<statsCache, calls>>
                 /\ NoQuery
            ELSE IF ~ValidateId(id)
            THEN /\ lastResp' = BookResp(route, 400, authed, FALSE, 0)
                 /\ UNCHANGED <<statsCache, calls>>
                 /\ NoQuery
            ELSE LET call == [op |-> "delete", pc |-> "delete", id |-> id,
                              authed |-> authed,
                              roles |-> RolesOf(header, now)]
                 IN  /\ CanStart(call)
                     /\ statsCache' = {}
                     /\ calls' = calls \cup {call}
                     /\ UNCHANGED lastResp
                     /\ QueryCalled

\* the engine executes the INSERT of a createBook call; PostgreSQL returns the
\* row (RETURNING *), MySQL leaves a second statement to await
ExecInsert ==
    \E c \in calls :
        /\ c.op = "create" /\ c.pc = "insert"
        /\ books' = books \cup {InsertedRow(nextBookId, c.data, now)}
        /\ nextBookId' = nextBookId + 1
        /\ IF IsMySQL(dbType)
           THEN /\ calls' = (calls \ {c}) \cup {[c EXCEPT !.pc = "select"]}
                /\ UNCHANGED lastResp
                /\ QueryCalled
           ELSE /\ calls' = calls \ {c}
                /\ NoQuery
                /\ lastResp' = BookResp("POST /api/books", 201, c.authed, FALSE, 0)
        /\ UNCHANGED <<dbType, pool, dbUp, users, statsCache, now, listed, session>>

\* the engine executes the UPDATE of an updateBook call
ExecUpdate ==
    \E c \in calls :
        /\ c.op = "update" /\ c.pc = "update"
        /\ books' = UpdateRows(books, c.id, c.data)
        /\ IF IsMySQL(dbType)
           THEN /\ calls' = (calls \ {c}) \cup {[c EXCEPT !.pc = "select"]}
                /\ UNCHANGED lastResp
                /\ QueryCalled
           ELSE /\ calls' = calls \ {c}
                /\ NoQuery
                /\ lastResp' =
                     LET found == RowsWithId(books, c.id) # {}
                     IN  BookResp("PUT /api/books/:id", IF found THEN 200 ELSE 404,
                                  c.authed, found,
                                  Cardinality(SuppliedFields(c.data)))
        /\ UNCHANGED <<dbType, pool, dbUp, nextBookId, users, statsCache, now,
                       listed, session>>

\* MySQL: the SELECT that follows the INSERT or the UPDATE
ExecSelect ==
    \E c \in calls :
        /\ c.op \in {"create", "update"} /\ c.pc = "select"
        /\ calls' = calls \ {c}
        /\ lastResp' =
             IF c.op = "create"
             THEN BookResp("POST /api/books", 201, c.authed, FALSE, 0)
             ELSE LET found == RowsWithId(books, c.id) # {}
                  IN  BookResp("PUT /api/books/:id", IF found THEN 200 ELSE 404,
                               c.authed, found,
                               Cardinality(SuppliedFields(c.data)))
        /\ UNCHANGED <<dbType, pool, dbUp, isConnected, lastHealthCheck, books, nextBookId, users, statsCache,
                       now, listed, session>>

\* the engine executes the DELETE of a deleteBook call
ExecDelete ==
    \E c \in calls :
        /\ c.op = "delete" /\ c.pc = "delete"
        /\ LET my == IsMySQL(dbType)
               deleted == RowsWithId(books, c.id)
               success == DeleteSuccess(my, DeleteResult(my, deleted))
           IN  IF ~dbUp
               THEN \* query() throws; the route's catch answers
                    /\ UNCHANGED books
                    /\ lastResp' = BookResp("DELETE /api/books/:id", 500,
                                            c.authed, FALSE, 0)
               ELSE /\ books' = DeleteRows(books, c.id)
                    /\ lastResp' = BookResp("DELETE /api/books/:id",
                                            IF success THEN 200 ELSE 404,
                                            c.authed, deleted # {}, 0)
        /\ calls' = calls \ {c}
        /\ UNCHANGED <<dbType, pool, dbUp, isConnected, lastHealthCheck, nextBookId, users, statsCache, now,
                       listed, session>>

\* the response of GET /api/books/stats; `behind` records that the figures
\* differ from the table's although every write that touched it has completed
StatsResp(data, cached, table, t) ==
    [route |-> "GET /api/books/stats", status |-> 200, cached |-> cached,
     behind |-> data # Stats(table, t) /\ ~\E c \in calls : c.pc = "select"]

\* GET /api/books/stats up to getStats' await: a cache hit answers at once
GetStats ==
    /\ IF ~RequireDatabase(isConnected).pass
       THEN /\ lastResp' = [route |-> "GET /api/books/stats", status |-> 503,
                            cached |-> FALSE, behind |-> FALSE]
            /\ UNCHANGED calls
            /\ NoQuery
       ELSE IF CacheValid(statsCache, now)
       THEN /\ lastResp' = StatsResp((CHOOSE c \in statsCache : TRUE).data, TRUE,
                                     books, now)
            /\ UNCHANGED calls
            /\ NoQuery
       ELSE /\ CanStart([op |-> "stats", pc |-> "query", t0 |-> now])
            /\ calls' = calls \cup {[op |-> "stats", pc |-> "query", t0 |-> now]}
            /\ UNCHANGED lastResp
            /\ QueryCalled
    /\ UNCHANGED <<dbType, pool, dbUp, books, nextBookId, users, statsCache, now,
                   listed, session>>

\* the engine executes the statistics query
ExecStats ==
    \E c \in calls :
        /\ c.op = "stats" /\ c.pc = "query"
        /\ calls' = (calls \ {c}) \cup
                       {[op |-> "stats", pc |-> "store", t0 |-> c.t0,
                         data |-> Stats(books, now)]}
        /\ UNCHANGED <<dbType, pool, dbUp, isConnected, lastHealthCheck, books, nextBookId, users, statsCache,
                       now, lastResp, listed, session>>

\* getStats resumes: this.statsCache = { data: stats, timestamp: now }
StoreStats ==
    \E c \in calls :
        /\ c.op = "stats" /\ c.pc = "store"
        /\ statsCache' = {[data |-> c.data, timestamp |-> c.t0]}
        /\ lastResp' = StatsResp(c.data, FALSE, books, now)
        /\ calls' = calls \ {c}
        /\ UNCHANGED <<dbType, pool, dbUp, isConnected, lastHealthCheck, books, nextBookId, users, now, listed,
                       session>>

Tick ==
    /\ now < MaxTicks * TickMs
    /\ now' = now + TickMs
    /\ UNCHANGED <<dbType, pool, dbUp, isConnected, lastHealthCheck, books, nextBookId, users, statsCache, calls,
                   lastResp, listed, session>>

Next ==
    \/ PostBook
    \/ PutBook
    \/ DeleteBook
    \/ ExecInsert
    \/ ExecUpdate
    \/ ExecSelect
    \/ ExecDelete
    \/ GetStats
    \/ ExecStats
    \/ StoreStats
    \/ Tick

Spec == Init /\ [][Next]_vars

(***************************************************************************)
(* Claims about the book routes, checked under Spec.                       *)
(***************************************************************************)
StatsRoute == "GET /api/books/stats"
MutatingRoutes == {"POST /api/books", "PUT /api/books/:id", "DELETE /api/books/:id"}
WriteOps == {"create", "update", "delete"}

\* C5: once every write has completed, a getStats call that starts afterwards
\* does not answer from the cache with figures that differ from the store's.
C5_CacheHitNeverBehindCompletedWrites ==
    (lastResp.route = StatsRoute /\ lastResp.cached) => ~lastResp.behind

\* C7: DELETE /api/books/:id answers 200 exactly when the call removed a book
\* with that id, and 404 otherwise, under either engine.
C7_DeleteReportsWhatItRemoved ==
    (lastResp.route = "DELETE /api/books/:id" /\ lastResp.status \in {200, 404})
        => (lastResp.status = 200 <=> lastResp.found)

\* C8: a PUT /api/books/:id that passes the middlewares with a body supplying
\* none of title, author, published_year, genre is answered with HTTP 400.
C8_EmptyUpdateIsClientError ==
    (/\ lastResp.route = "PUT /api/books/:id"
     /\ lastResp.status \notin {401, 403, 503}
     /\ lastResp.nfields = 0)
        => lastResp.status = 400

\* C9: the books table changes only in a step that executes the statement of a
\* createBook, updateBook or deleteBook call whose request carried a token
\* verifyToken accepted when the request arrived.
C9_BooksChangeOnlyWithAcceptedToken ==
    [][books' # books =>
         \E c \in calls : c.op \in WriteOps /\ c.authed /\ c \notin calls']_vars

\* a book was written, and afterwards a mutating request whose token had
\* expired or was forged was turned away
C9_Witness ==
    /\ books # {SeedBook}
    /\ now > 0
    /\ lastResp.route \in MutatingRoutes
    /\ lastResp.status = 403
    /\ ~lastResp.authed

\* C11: a POST, PUT or DELETE /api/books request whose valid token carries role
\* user is refused: no createBook, updateBook or deleteBook call is ever
\* running on behalf of a token whose role is not admin.
C11_OnlyAdminTokensWriteBooks ==
    \A c \in calls : c.op \in WriteOps => c.roles = {"admin"}

(***************************************************************************)
(* SpecUsers: the two admin routes over the users table.  Each handler has *)
(* a single statement to await and nothing before it that another request  *)
(* can observe, so a request is one step.                                  *)
(***************************************************************************)
MaxUserId == 4
RoleInputs == {"admin", "user", "owner"}

\* validateRoleUpdate: body('role').isIn(['admin', 'user'])
ValidateRoleUpdate(role) == role \in {"admin", "user"}

\* UserService.deleteUser / updateUserRole: affected rows, read under both
\* engines from where query() puts them
UserRowsAffected(table, id) == Cardinality({u \in table : u.id = id})

SetRole(table, id, role) ==
    {IF u.id = id THEN [u EXCEPT !.role = role] ELSE u : u \in table}

\* requireDatabase, authenticateToken, requireAdmin in the order the routes
\* list them
AdminGate(header) ==
    LET db == RequireDatabase(isConnected)
        auth == AuthenticateToken(header, now)
        admin == RequireAdmin(auth.user)
    IN  IF ~db.pass THEN [pass |-> FALSE, status |-> db.status, user |-> {}]
        ELSE IF ~auth.pass THEN [pass |-> FALSE, status |-> auth.status, user |-> {}]
        ELSE IF ~admin.pass THEN [pass |-> FALSE, status |-> admin.status, user |-> {}]
        ELSE [pass |-> TRUE, status |-> 0, user |-> auth.user]

UserResp(route, status, caller, id) ==
    [route |-> route, status |-> status, caller |-> caller, id |-> id]

\* PUT /api/auth/users/:id/role
PutUserRole ==
    /\ UNCHANGED <<dbType, pool, dbUp, books, nextBookId, statsCache, now, calls,
                   listed, session>>
    /\ \E header \in HeaderInputs, id \in 0..MaxUserId, role \in RoleInputs :
        LET gate == AdminGate(header)
            route == "PUT /api/auth/users/:id/role"
            caller == Caller(header, now)
        IN  IF ~gate.pass
            THEN /\ lastResp' = UserResp(route, gate.status, caller, id)
                 /\ UNCHANGED users
                 /\ NoQuery
            ELSE IF ~(ValidateId(id) /\ ValidateRoleUpdate(role))
            THEN /\ lastResp' = UserResp(route, 400, caller, id)
                 /\ UNCHANGED users
                 /\ NoQuery
            ELSE IF \E u \in gate.user : u.userId = id
            THEN /\ lastResp' = UserResp(route, 400, caller, id)
                 /\ UNCHANGED users
                 /\ NoQuery
            ELSE /\ QueryCalled
                 /\ users' = SetRole(users, id, role)
                 /\ lastResp' = UserResp(route,
                                         IF UserRowsAffected(users, id) > 0
                                         THEN 200 ELSE 404,
                                         caller, id)

\* DELETE /api/auth/users/:id
DeleteUser ==
    /\ UNCHANGED <<dbType, pool, dbUp, books, nextBookId, statsCache, now, calls,
                   listed, session>>
    /\ \E header \in HeaderInputs, id \in 0..MaxUserId :
        LET gate == AdminGate(header)
            route == "DELETE /api/auth/users/:id"
            caller == Caller(header, now)
        IN  IF ~gate.pass
            THEN /\ lastResp' = UserResp(route, gate.status, caller, id)
                 /\ UNCHANGED users
                 /\ NoQuery
            ELSE IF ~ValidateId(id)
            THEN /\ lastResp' = UserResp(route, 400, caller, id)
                 /\ UNCHANGED users
                 /\ NoQuery
            ELSE IF \E u \in gate.user : u.userId = id
            THEN /\ lastResp' = UserResp(route, 400, caller, id)
                 /\ UNCHANGED users
                 /\ NoQuery
            ELSE /\ QueryCalled
                 /\ users' = {u \in users : u.id # id}
                 /\ lastResp' = UserResp(route,
                                         IF UserRowsAffected(users, id) > 0
                                         THEN 200 ELSE 404,
                                         caller, id)

NextUsers ==
    \/ PutUserRole
    \/ DeleteUser
    \/ Tick

SpecUsers == Init /\ [][NextUsers]_vars

UserRoutes == {"PUT /api/auth/users/:id/role", "DELETE /api/auth/users/:id"}

\* C10: the users table changes only on a request whose token carries role
\* admin and whose :id is not the caller's own; an admin naming their own id
\* is answered 400 and a caller whose token carries another role 403.
C10_AdminOnlyAndNeverSelf ==
    /\ [][users' # users =>
            /\ lastResp'.route \in UserRoutes
            /\ \E u \in lastResp'.caller : u.role = "admin" /\ u.userId # lastResp'.id]_vars
    /\ [](lastResp.route \in UserRoutes =>
            \A u \in lastResp.caller :
                /\ (u.role # "admin" => lastResp.status = 403)
                /\ (u.role = "admin" /\ u.userId = lastResp.id => lastResp.status = 400))

\* an admin has removed or re-roled somebody, and then named their own id
C10_Witness ==
    /\ users # InitUsers
    /\ lastResp.route \in UserRoutes
    /\ lastResp.status = 400
    /\ \E u \in lastResp.caller : u.role = "admin" /\ u.userId = lastResp.id

(***************************************************************************)
(* SpecAuth: registration, login, the current-user route and logout, with  *)
(* a database that may stop answering.  A user row carries password_hash;  *)
(* bcrypt is a symbolic one-way function of the password.                  *)
(***************************************************************************)
\* bcrypt.hash(password, SALT_ROUNDS)
Hash(password) == <<"bcrypt", password>>

\* bcrypt.compare(password, hash)
Compare(password, hash) == hash = Hash(password)

\* the users table at start: the three accounts, all with password "pw1"
AuthUsers ==
    {[id |-> u.id, username |-> u.username, email |-> u.email, role |-> u.role,
      password_hash |-> Hash("pw1")] : u \in InitUsers}

InitAuth ==
    /\ dbType \in Engines
    /\ pool = NoConnections
    /\ isConnected = TRUE
    /\ dbUp = TRUE
    /\ lastHealthCheck = 0
    /\ books = {SeedBook}
    /\ nextBookId = 2
    /\ users = AuthUsers
    /\ statsCache = {}
    /\ now = 0
    /\ calls = {}
    /\ lastResp = NoResp
    /\ listed = NoCall
    /\ session = NoSession

\* getUserByEmail finding nobody
GetUserByEmail_FindsNobody(table, email, up) == {}

\* SELECT * FROM users WHERE email = ..., null ({}) when the statement fails
GetUserByEmail(table, email, up) ==
    IF up THEN {u \in table : u.email = email} ELSE {}

\* SELECT * FROM users WHERE username = ..., null when the statement fails
GetUserByUsername(table, username, up) ==
    IF up THEN {u \in table : u.username = username} ELSE {}

\* SELECT * FROM users WHERE id = ..., null when the statement fails
GetUserById(table, id, up) ==
    IF up THEN {u \in table : u.id = id} ELSE {}

\* formatUserResponse returning the row as it is
FormatUserResponse_WholeRow(u) == u

\* formatUserResponse: the row without password_hash
FormatUserResponse(u) ==
    [id |-> u.id, username |-> u.username, email |-> u.email, role |-> u.role]

\* the token of an account that is not in the table
GonePayload == [userId |-> 9, role |-> "user"]

\* the Authorization headers tried on GET /api/auth/me
MeHeaders ==
    HeaderInputs \cup {<<"Bearer", GenerateToken(GonePayload, 0)>>}
       \cup (IF lastResp.route = "POST /api/auth/login"
             THEN {<<"Bearer", tk>> : tk \in lastResp.token} ELSE {})

MeResp(status, header, mw, found, dbError, data) ==
    [route |-> "GET /api/auth/me", status |-> status, header |-> header,
     at |-> now, mw |-> mw, found |-> found, dbError |-> dbError, data |-> data]

\* GET /api/auth/me: requireDatabase, authenticateToken, getUserById
Me ==
    /\ UNCHANGED <<dbType, pool, dbUp, books, nextBookId, users, statsCache, now, calls,
                   listed, session>>
    /\ \E header \in MeHeaders :
         LET db == RequireDatabase(isConnected)
             mw == AuthenticateToken(header, now)
         IN  IF ~db.pass
             THEN /\ lastResp' = [route |-> "GET /api/auth/me", status |-> db.status,
                                  dbError |-> FALSE]
                  /\ NoQuery
             ELSE IF ~mw.pass
             THEN /\ lastResp' = MeResp(mw.status, header, mw, FALSE, FALSE, {})
                  /\ NoQuery
             ELSE LET id == (CHOOSE u \in mw.user : TRUE).userId
                      user == GetUserById(users, id, dbUp)
                  IN  /\ lastResp' = MeResp(IF user = {} THEN 404 ELSE 200, header, mw,
                                            \E u \in users : u.id = id, ~dbUp,
                                            {FormatUserResponse(u) : u \in user})
                      /\ QueryCalled

\* C12: whenever authenticateToken ran for a request, it answered 401
\* exactly when the Authorization header yields no token, 403 exactly when
\* a token is there and verifyToken rejects it, and otherwise attached the
\* decoded claims and called next; it either sent one response or called
\* next once, never both and never neither.
C12_AuthenticateTokenVerdicts ==
    (lastResp.route = "GET /api/auth/me" /\ lastResp.status # 503) =>
        LET token == HeaderToken(lastResp.header)
            decoded == UNION {VerifyToken(tk, lastResp.at) : tk \in token}
            mw == lastResp.mw
        IN  /\ (mw.status = 401) <=> (token = {})
            /\ (mw.status = 403) <=> (token # {} /\ decoded = {})
            /\ mw.pass <=> (token # {} /\ decoded # {})
            /\ mw.pass => (mw.user = decoded /\ mw.nexts = 1 /\ mw.sent = 0)
            /\ ~mw.pass => (mw.user = {} /\ mw.nexts = 0 /\ mw.sent = 1
                            /\ lastResp.status = mw.status)
            /\ mw.sent + mw.nexts = 1

\* the three outcomes have all been produced: this one is a token that was
\* presented and rejected
C12_Witness ==
    /\ lastResp.route = "GET /api/auth/me"
    /\ lastResp.status = 403
    /\ HeaderToken(lastResp.header) # {}

\* the strings of the request alphabet that isEmail() accepts
WellFormedEmails == {"admin@x", "root@x", "reader@x", "new@x", "neo@x"}
IsEmail(e) == e \in WellFormedEmails

LoginInputs ==
    [email : {"reader@x", "new@x", "nomail"}, password : {"pw1", "bad", ""}]

\* validateLogin
ValidateLogin(body) == IsEmail(body.email) /\ body.password # ""

INVALID_CREDENTIALS == "Invalid email or password"

\* loginUser with its second failure reworded
LoginUser_DistinctFailures(table, credentials, up, t) ==
    LET user == GetUserByEmail(table, credentials.email, up)
    IN  IF user = {}
        THEN [success |-> FALSE, message |-> INVALID_CREDENTIALS,
              token |-> {}, user |-> {}]
        ELSE LET u == CHOOSE r \in user : TRUE
             IN  IF ~Compare(credentials.password, u.password_hash)
                 THEN [success |-> FALSE, message |-> "Wrong password",
                       token |-> {}, user |-> {}]
                 ELSE [success |-> TRUE, message |-> "Login successful",
                       token |-> {GenerateToken([userId |-> u.id, role |-> u.role], t)},
                       user |-> {FormatUserResponse(u)}]

\* loginUser at time t; `up` is whether the database answers
LoginUser(table, credentials, up, t) ==
    LET user == GetUserByEmail(table, credentials.email, up)
    IN  IF user = {}
        THEN [success |-> FALSE, message |-> INVALID_CREDENTIALS,
              token |-> {}, user |-> {}]
        ELSE LET u == CHOOSE r \in user : TRUE
             IN  IF ~Compare(credentials.password, u.password_hash)
                 THEN [success |-> FALSE, message |-> INVALID_CREDENTIALS,
                       token |-> {}, user |-> {}]
                 ELSE [success |-> TRUE, message |-> "Login successful",
                       token |-> {GenerateToken([userId |-> u.id, role |-> u.role], t)},
                       user |-> {FormatUserResponse(u)}]

\* the status POST /api/auth/login answers a loginUser result with
LoginStatus(result) == IF result.success THEN 200 ELSE 401

LoginResp(status, result, credentials, dbError) ==
    [route |-> "POST /api/auth/login", status |-> status,
     success |-> result.success, message |-> result.message,
     token |-> result.token, user |-> result.user,
     credentials |-> credentials, dbError |-> dbError]

\* POST /api/auth/login: requireDatabase, validateLogin, loginUser
Login ==
    /\ UNCHANGED <<dbType, pool, dbUp, books, nextBookId, users, statsCache, now, calls,
                   listed, session>>
    /\ \E credentials \in LoginInputs :
         LET db == RequireDatabase(isConnected)
             rejected(status, message) ==
                 LoginResp(status, [success |-> FALSE, message |-> message,
                                    token |-> {}, user |-> {}], credentials, FALSE)
         IN  IF ~db.pass
             THEN /\ lastResp' = rejected(db.status, "Database service is currently unavailable")
                  /\ NoQuery
             ELSE IF ~ValidateLogin(credentials)
             THEN /\ lastResp' = rejected(400, "Validation failed")
                  /\ NoQuery
             ELSE LET result == LoginUser(users, credentials, dbUp, now)
                  IN  /\ lastResp' = LoginResp(LoginStatus(result), result,
                                               credentials, ~dbUp)
                      /\ QueryCalled

\* POST /api/auth/logout: no middleware, no statement
Logout ==
    /\ \E header \in {<<>>, <<"Bearer", ShortLived>>} :
         lastResp' = [route |-> "POST /api/auth/logout", status |-> 200,
                      success |-> TRUE, message |-> "Logged out successfully",
                      header |-> header, connected |-> isConnected, dbError |-> FALSE]
    /\ UNCHANGED <<dbType, pool, dbUp, isConnected, lastHealthCheck, books, nextBookId,
                   users, statsCache, now, calls, listed, session>>

\* the database server stops answering
DbFails ==
    /\ dbUp
    /\ dbUp' = FALSE
    /\ UNCHANGED <<dbType, pool, isConnected, lastHealthCheck, books, nextBookId, users,
                   statsCache, now, calls, lastResp, listed, session>>

\* the database server answers again
DbRecovers ==
    /\ ~dbUp
    /\ dbUp' = TRUE
    /\ UNCHANGED <<dbType, pool, isConnected, lastHealthCheck, books, nextBookId, users,
                   statsCache, now, calls, lastResp, listed, session>>

\* C13: for any two login attempts that fail on the credentials, one with an
\* email no account has and one with a registered email and a wrong password,
\* loginUser returns the same result (the message 'Invalid email or
\* password', no token, no user) and the route answers both with 401.
C13_LoginFailuresIndistinguishable ==
    \A c1, c2 \in LoginInputs :
        (/\ ValidateLogin(c1) /\ ValidateLogin(c2)
         /\ ~\E u \in users : u.email = c1.email
         /\ \E u \in users : u.email = c2.email /\ ~Compare(c2.password, u.password_hash))
        => LET r1 == LoginUser(users, c1, dbUp, now)
               r2 == LoginUser(users, c2, dbUp, now)
           IN  /\ r1 = r2
               /\ r1 = [success |-> FALSE, message |-> INVALID_CREDENTIALS,
                        token |-> {}, user |-> {}]
               /\ LoginStatus(r1) = 401 /\ LoginStatus(r2) = 401
               /\ (/\ lastResp.route = "POST /api/auth/login"
                   /\ lastResp.credentials \in {c1, c2}
                   /\ lastResp.status \notin {400, 503})
                  => /\ lastResp.status = 401
                     /\ lastResp.message = INVALID_CREDENTIALS
                     /\ lastResp.token = {} /\ lastResp.user = {}

\* a login with a registered email and a wrong password has been refused
C13_Witness ==
    /\ lastResp.route = "POST /api/auth/login"
    /\ lastResp.status = 401
    /\ ~lastResp.dbError
    /\ \E u \in users : /\ u.email = lastResp.credentials.email
                        /\ ~Compare(lastResp.credentials.password, u.password_hash)

NextAuth ==
    \/ Me
    \/ Login
    \/ Logout
    \/ DbFails
    \/ DbRecovers
    \/ Tick

SpecAuth == InitAuth /\ [][NextAuth]_vars

(***************************************************************************)
(* SpecRegister: concurrent registrations.  registerUser awaits three      *)
(* statements (email lookup, username lookup, INSERT); calls interleave    *)
(* between them.  The users table enforces UNIQUE(username), UNIQUE(email).*)
(***************************************************************************)
RegisterInputs ==
    {[username |-> "newbie", email |-> "reader@x", password |-> "pw2", role |-> {}],
     [username |-> "reader", email |-> "new@x", password |-> "pw2", role |-> {}],
     [username |-> "newbie", email |-> "new@x", password |-> "pw2", role |-> {}],
     [username |-> "novice", email |-> "new@x", password |-> "pw2", role |-> {}],
     [username |-> "newbie", email |-> "neo@x", password |-> "pw2", role |-> {}],
     [username |-> "ab", email |-> "new@x", password |-> "pw2", role |-> {}],
     [username |-> "novice", email |-> "neo@x", password |-> "pw2", role |-> {"admin"}],
     [username |-> "novice", email |-> "neo@x", password |-> "pw2", role |-> {"root"}]}

\* validateRegister; role is optional, one of 'admin' and 'user' when present
ValidateRegister(body) ==
    /\ Len(body.username) >= 3 /\ Len(body.username) <= 30
    /\ IsEmail(body.email)
    /\ body.password # ""
    /\ body.role \subseteq {"admin", "user"}

\* the value SERIAL gives the next row
NextUserId(table) ==
    1 + (CHOOSE m \in {u.id : u \in table} : \A u \in table : u.id <= m)

\* the UNIQUE constraints, left out
UniqueViolation_None(table, data) == FALSE

\* whether the INSERT of data breaks UNIQUE(username) or UNIQUE(email)
UniqueViolation(table, data) ==
    \E u \in table : u.username = data.username \/ u.email = data.email

\* the row INSERT INTO users (username, email, password_hash, role) adds;
\* role is the one of the request body, 'user' when the body has none
InsertedUser(table, data, hash) ==
    [id |-> NextUserId(table), username |-> data.username, email |-> data.email,
     role |-> IF data.role = {} THEN "user" ELSE CHOOSE r \in data.role : TRUE,
     password_hash |-> hash]

\* the response of POST /api/auth/register.  emailTaken and usernameTaken
\* record what the table held when the respective lookup ran, answered
\* whether both lookups were answered by the database, hashed whether
\* bcrypt.hash was called, inserted whether a row was added
RegisterResp(status, message, data, emailTaken, usernameTaken, answered, hashed, inserted, dbError) ==
    [route |-> "POST /api/auth/register", status |-> status,
     success |-> status = 201, message |-> message, data |-> data,
     emailTaken |-> emailTaken, usernameTaken |-> usernameTaken,
     answered |-> answered, hashed |-> hashed, inserted |-> inserted,
     dbError |-> dbError]

\* POST /api/auth/register up to the first await of registerUser
Register ==
    /\ UNCHANGED <<dbType, pool, dbUp, books, nextBookId, users, statsCache, now,
                   listed, session>>
    /\ \E data \in RegisterInputs :
         LET db == RequireDatabase(isConnected)
             call == [op |-> "register", pc |-> "byEmail", data |-> data,
                      answered |-> TRUE]
         IN  IF ~db.pass
             THEN /\ lastResp' = RegisterResp(db.status, "Database service is currently unavailable",
                                              data, FALSE, FALSE, TRUE, FALSE, FALSE, FALSE)
                  /\ UNCHANGED calls
                  /\ NoQuery
             ELSE IF ~ValidateRegister(data)
             THEN /\ lastResp' = RegisterResp(400, "Validation failed", data,
                                              FALSE, FALSE, TRUE, FALSE, FALSE, FALSE)
                  /\ UNCHANGED calls
                  /\ NoQuery
             ELSE /\ CanStart(call)
                  /\ \A c \in calls : c.data # data
                  /\ calls' = calls \cup {call}
                  /\ UNCHANGED lastResp
                  /\ QueryCalled

\* the engine answers the email lookup; registerUser resumes
ExecByEmail ==
    /\ UNCHANGED <<dbType, pool, dbUp, books, nextBookId, users, statsCache, now,
                   listed, session>>
    /\ \E c \in calls :
         /\ c.op = "register" /\ c.pc = "byEmail"
         /\ LET existingUser == GetUserByEmail(users, c.data.email, dbUp)
            IN  IF existingUser # {}
                THEN /\ lastResp' = RegisterResp(400, "User with this email already exists",
                                                 c.data, TRUE, FALSE, c.answered,
                                                 FALSE, FALSE, FALSE)
                     /\ calls' = calls \ {c}
                     /\ NoQuery
                ELSE /\ calls' = (calls \ {c}) \cup
                                    {[c EXCEPT !.pc = "byUsername",
                                               !.answered = dbUp]}
                     /\ UNCHANGED lastResp
                     /\ QueryCalled

\* the engine answers the username lookup; registerUser resumes, hashes the
\* password and issues the INSERT
ExecByUsername ==
    /\ UNCHANGED <<dbType, pool, dbUp, books, nextBookId, users, statsCache, now,
                   listed, session>>
    /\ \E c \in calls :
         /\ c.op = "register" /\ c.pc = "byUsername"
         /\ LET existingUsername == GetUserByUsername(users, c.data.username, dbUp)
            IN  IF existingUsername # {}
                THEN /\ lastResp' = RegisterResp(400, "Username is already taken",
                                                 c.data, FALSE, TRUE, c.answered,
                                                 FALSE, FALSE, FALSE)
                     /\ calls' = calls \ {c}
                     /\ NoQuery
                ELSE /\ calls' = (calls \ {c}) \cup
                                    {[op |-> "register", pc |-> "insert", data |-> c.data,
                                      answered |-> c.answered /\ dbUp,
                                      hash |-> Hash(c.data.password)]}
                     /\ UNCHANGED lastResp
                     /\ QueryCalled

\* the engine executes the INSERT; a failure or a constraint violation makes
\* query() throw, which registerUser catches
ExecInsertUser ==
    /\ UNCHANGED <<dbType, pool, dbUp, isConnected, lastHealthCheck, books, nextBookId,
                   statsCache, now, listed, session>>
    /\ \E c \in calls :
         /\ c.op = "register" /\ c.pc = "insert"
         /\ calls' = calls \ {c}
         /\ IF ~dbUp \/ UniqueViolation(users, c.data)
            THEN /\ lastResp' = RegisterResp(400, "Failed to register user", c.data,
                                             FALSE, FALSE, c.answered, TRUE, FALSE, ~dbUp)
                 /\ UNCHANGED users
            ELSE /\ lastResp' = RegisterResp(201, "User registered successfully", c.data,
                                             FALSE, FALSE, c.answered, TRUE, TRUE, FALSE)
                 /\ users' = users \cup {InsertedUser(users, c.data, c.hash)}

NextRegister ==
    \/ Register
    \/ ExecByEmail
    \/ ExecByUsername
    \/ ExecInsertUser
    \/ DbFails
    \/ DbRecovers
    \/ Tick

SpecRegister == InitAuth /\ [][NextRegister]_vars

RegisterRoute == "POST /api/auth/register"

C15_UniqueEmailAndUsername ==
    /\ \A u, v \in users :
         (u.email = v.email \/ u.username = v.username) => u = v
    /\ (lastResp.route = RegisterRoute /\ lastResp.success)
         => /\ lastResp.inserted
            /\ Cardinality({u \in users : \/ u.email = lastResp.data.email
                                          \/ u.username = lastResp.data.username}) = 1

\* two concurrent registrations shared an email or a username, both lookups
\* of the second were answered "free", and it lost at the INSERT
C15_Witness ==
    /\ lastResp.route = RegisterRoute
    /\ lastResp.message = "Failed to register user"
    /\ lastResp.answered /\ ~lastResp.dbError
    /\ \E u \in users \ AuthUsers : \/ u.email = lastResp.data.email
                                    \/ u.username = lastResp.data.username

\* the tokens in circulation: those the clients hold and the one the last
\* login issued
TokensAt(resp) ==
    TokenInputs \cup {GenerateToken(GonePayload, 0)}
       \cup (IF resp.route = "POST /api/auth/login" THEN resp.token ELSE {})

\* a token this server signed
Issued(tk) == tk.wellFormed /\ tk.sig = Sign(tk.payload, tk.exp, JWT_SECRET)

\* C16: a token the server signed is accepted by the authenticated route at
\* every time before its expiry and refused with 403 at every time from its
\* expiry on; no step makes a refused token accepted again and no step
\* before the expiry makes an accepted token refused; logout answers 200
\* with success whatever the header and the connection status, and changes
\* nothing on the server.
C16_TokenValidUntilExpiryLogoutStateless ==
    [][/\ (lastResp'.route = "GET /api/auth/me" /\ lastResp'.status # 503)
            => \A tk \in HeaderToken(lastResp'.header) :
                 Issued(tk) =>
                    /\ (lastResp'.at \div 1000 < tk.exp) <=> lastResp'.mw.pass
                    /\ (lastResp'.at \div 1000 >= tk.exp) <=> (lastResp'.status = 403)
       /\ \A tk \in TokensAt(lastResp) :
            /\ (Issued(tk) /\ VerifyToken(tk, now) = {}) => VerifyToken(tk, now') = {}
            /\ (VerifyToken(tk, now) # {} /\ now' \div 1000 < tk.exp)
                 => VerifyToken(tk, now') # {}
       /\ (lastResp'.route = "POST /api/auth/logout" /\ lastResp' # lastResp)
            => /\ lastResp'.status = 200 /\ lastResp'.success
               /\ UNCHANGED <<dbType, pool, isConnected, dbUp, lastHealthCheck, books,
                              nextBookId, users, statsCache, now, calls, listed,
                              session>>
      ]_vars

\* logout has answered a request carrying an expired token while the
\* database was disconnected
C16_Witness ==
    /\ lastResp.route = "POST /api/auth/logout"
    /\ lastResp.status = 200
    /\ ~lastResp.connected
    /\ \E tk \in HeaderToken(lastResp.header) : Issued(tk) /\ VerifyToken(tk, now) = {}

\* C20: a request during which a statement failed is answered with 500, so
\* that it is never answered like a missing user (404) or like invalid
\* credentials (401).
C20_StatementFailureAnswers500 ==
    (lastResp.route \in {"GET /api/auth/me", "POST /api/auth/login"}
       /\ lastResp.dbError)
    => lastResp.status = 500

(***************************************************************************)
(* SpecDb: the connection status.  The server starts whether or not the    *)
(* database answered testConnection; the status changes in testConnection, *)
(* in the health check query() starts, and on the PostgreSQL pool's error  *)
(* event.                                                                  *)
(***************************************************************************)
\* startServer: testConnection, then initDatabase (which calls query(), so
\* the first health check is made) when it succeeded
InitDb ==
    /\ dbType \in Engines
    /\ pool = NoConnections
    /\ dbUp \in BOOLEAN
    /\ isConnected = dbUp
    /\ lastHealthCheck = (IF dbUp THEN 0 ELSE 0 - (HEALTH_CHECK_INTERVAL + 1))
    /\ books = {SeedBook}
    /\ nextBookId = 2
    /\ users = AuthUsers
    /\ statsCache = {}
    /\ now = 0
    /\ calls = {}
    /\ lastResp = NoResp
    /\ listed = NoCall
    /\ session = NoSession

\* testConnection without a working attempt
TestConnection_AlwaysFails(up) == FALSE

\* testConnection: the value it returns and stores in isConnected; its
\* attempts all meet the database in the same condition
TestConnection(up) == up

StatusRoute == "GET /api/db/status"
ReconnectRoute == "POST /api/db/reconnect"

\* GET /api/db/status
GetDbStatus ==
    /\ lastResp' = [route |-> StatusRoute, status |-> 200, success |-> TRUE,
                    connected |-> isConnected]
    /\ UNCHANGED <<dbType, pool, dbUp, isConnected, lastHealthCheck, books, nextBookId,
                   users, statsCache, now, calls, listed, session>>

\* POST /api/db/reconnect: testConnection, then initDatabase when connected;
\* initDatabase calls query() and swallows its errors
Reconnect ==
    /\ LET connected == TestConnection(dbUp)
       IN  /\ lastResp' = [route |-> ReconnectRoute, status |-> 200,
                           success |-> connected, connected |-> connected,
                           was |-> isConnected, up |-> dbUp]
           /\ IF connected /\ HealthCheckDue
              THEN /\ lastHealthCheck' = now
                   /\ isConnected' = PerformHealthCheck(connected, dbUp)
              ELSE /\ isConnected' = connected
                   /\ UNCHANGED lastHealthCheck
    /\ UNCHANGED <<dbType, pool, dbUp, books, nextBookId, users, statsCache, now, calls,
                   listed, session>>

\* GET /api/books/filters/genres: requireDatabase, getGenres
GetGenres ==
    /\ LET db == RequireDatabase(isConnected)
           route == "GET /api/books/filters/genres"
       IN  IF ~db.pass
           THEN /\ lastResp' = [route |-> route, status |-> db.status, dbError |-> FALSE]
                /\ NoQuery
           ELSE /\ lastResp' = [route |-> route, status |-> IF dbUp THEN 200 ELSE 500,
                                dbError |-> ~dbUp]
                /\ QueryCalled
    /\ UNCHANGED <<dbType, pool, dbUp, books, nextBookId, users, statsCache, now, calls,
                   listed, session>>

\* the PostgreSQL pool emits 'error' for an idle client of a server that
\* went away
PoolError ==
    /\ dbType = "postgresql"
    /\ ~dbUp
    /\ isConnected
    /\ isConnected' = FALSE
    /\ UNCHANGED <<dbType, pool, dbUp, lastHealthCheck, books, nextBookId, users,
                   statsCache, now, calls, lastResp, listed, session>>

NextDb ==
    \/ GetDbStatus
    \/ Reconnect
    \/ GetGenres
    \/ Me
    \/ Login
    \/ DeleteBook
    \/ ExecDelete
    \/ PoolError
    \/ DbFails
    \/ DbRecovers
    \/ Tick

SpecDb == InitDb /\ [][NextDb]_vars

\* the routes of this specification that start with requireDatabase
GuardedRoutes ==
    {"GET /api/books/filters/genres", "DELETE /api/books/:id",
     "GET /api/auth/me", "POST /api/auth/login"}

\* a step in which a request to a guarded route is answered on arrival
\* (not the completion of a call that was admitted earlier)
GuardedArrival ==
    /\ lastResp' # lastResp
    /\ lastResp'.route \in GuardedRoutes
    /\ calls \subseteq calls'

\* C17: a request that reaches a guarded route while the status is
\* disconnected is answered 503 and nothing else happens: no call is
\* admitted, no statement is issued, no state changes, whatever token and
\* body it carries; while the status is connected requireDatabase passes
\* the request on and no guarded route answers 503.
C17_GuardedRoutesAnswer503WhileDisconnected ==
    [][/\ RequireDatabase(TRUE) = [pass |-> TRUE, status |-> 0]
       /\ ~isConnected =>
            /\ calls' \subseteq calls
            /\ GuardedArrival =>
                 /\ lastResp'.status = 503
                 /\ UNCHANGED <<dbType, pool, dbUp, isConnected, lastHealthCheck, books,
                                nextBookId, users, statsCache, now, calls, listed,
                                session>>
       /\ (isConnected /\ GuardedArrival) => lastResp'.status # 503
      ]_vars

\* a guarded route has answered 503 while the status was disconnected
C17_Witness ==
    /\ ~isConnected
    /\ lastResp.route \in GuardedRoutes
    /\ lastResp.status = 503

\* C18: GET /api/db/status and POST /api/db/reconnect are answered in every
\* state, also while disconnected; a reconnect made while the database is
\* reachable sets the status to connected and reports success, and while
\* the status is connected no guarded route answers 503.
C18_ReconnectRestoresService ==
    [][/\ ENABLED GetDbStatus /\ ENABLED Reconnect
       /\ (lastResp' # lastResp /\ lastResp'.route = StatusRoute)
            => (lastResp'.status = 200 /\ lastResp'.connected = isConnected)
       /\ (lastResp' # lastResp /\ lastResp'.route = ReconnectRoute)
            => /\ lastResp'.status = 200
               /\ dbUp => (isConnected' /\ lastResp'.success /\ lastResp'.connected)
       /\ (isConnected' /\ lastResp' # lastResp /\ lastResp'.route = ReconnectRoute)
            => RequireDatabase(isConnected').pass
       /\ (isConnected /\ GuardedArrival) => lastResp'.status \in {200, 400, 401, 403, 404, 500}
      ]_vars

\* a reconnect made while the status was disconnected has succeeded
C18_Witness ==
    /\ lastResp.route = ReconnectRoute
    /\ lastResp.success
    /\ ~lastResp.was
    /\ isConnected

\* C19: once the server has run for 30 seconds, the last health check is
\* never more than 30 seconds old, whatever the status and the traffic.
C19_HealthCheckedEvery30Seconds ==
    now > HEALTH_CHECK_INTERVAL => now - lastHealthCheck <= HEALTH_CHECK_INTERVAL

(***************************************************************************)
(* SpecRoute: GET /api/books.  A query parameter is {} when the request    *)
(* has none, or {s} with s the characters of its value.                    *)
(***************************************************************************)
DigitVal ==
    ("0" :> 0) @@ ("1" :> 1) @@ ("2" :> 2) @@ ("3" :> 3) @@ ("4" :> 4) @@
    ("5" :> 5) @@ ("6" :> 6) @@ ("7" :> 7) @@ ("8" :> 8) @@ ("9" :> 9)

\* validator's isInt without bounds: /^[-+]?[0-9]+$/
IsInt(s) ==
    LET body == IF Len(s) > 0 /\ s[1] \in {"-", "+"} THEN Tail(s) ELSE s
    IN  Len(body) > 0 /\ \A i \in 1..Len(body) : body[i] \in DOMAIN DigitVal

\* parseInt(s): the sign and the longest prefix of digits; {} for NaN
ParseInt(s) ==
    LET neg == Len(s) > 0 /\ s[1] = "-"
        body == IF Len(s) > 0 /\ s[1] \in {"-", "+"} THEN Tail(s) ELSE s
        n == CHOOSE k \in 0..Len(body) :
                /\ \A i \in 1..k : body[i] \in DOMAIN DigitVal
                /\ k = Len(body) \/ body[k + 1] \notin DOMAIN DigitVal
        val[k \in 0..Len(body)] ==
            IF k = 0 THEN 0 ELSE 10 * val[k - 1] + DigitVal[body[k]]
    IN  IF n = 0 THEN {} ELSE {IF neg THEN 0 - val[n] ELSE val[n]}

\* the query validators of the route accepting everything
ValidateListQuery_AcceptsAll(q) == TRUE

\* query('page').optional().isInt({ min: 1 }),
\* query('limit').optional().isInt({ min: 1, max: 100 }),
\* query('year').optional().isInt()
ValidateListQuery(q) ==
    /\ \A s \in q.page : IsInt(s) /\ \A n \in ParseInt(s) : n >= 1
    /\ \A s \in q.limit : IsInt(s) /\ \A n \in ParseInt(s) : n >= 1 /\ n <= 100
    /\ \A s \in q.year : IsInt(s)

\* parseInt(x) || dflt: NaN and 0 give the default, as does a missing x
ParseOr(x, dflt) ==
    LET n == UNION {ParseInt(s) : s \in x}
    IN  IF n = {} \/ n = {0} THEN dflt ELSE CHOOSE v \in n : TRUE

\* the filters the handler hands to getAllBooks
ListFilters(q) ==
    LET page == ParseOr(q.page, 1)
        limit == ParseOr(q.limit, 10)
    IN  [search |-> Absent, genre |-> Absent, author |-> Absent,
         year |-> UNION {IF s = <<>> THEN {} ELSE ParseInt(s) : s \in q.year},
         limit |-> {limit}, offset |-> {(page - 1) * limit}]

ListQueries ==
    [page : {{}, {<<"1">>}, {<<"3">>}, {<<"0">>}, {<<"-", "1">>}, {<<"x">>}, {<<>>}},
     limit : {{}, {<<"2">>}, {<<"1", "0", "0">>}, {<<"1", "0", "1">>}, {<<"0">>},
              {<<"a">>}},
     year : {{}, {<<"1", "9", "6", "5">>}, {<<"0">>}, {<<"-", "5">>},
             {<<"1", "9", "x">>}, {<<"1", ".", "5">>}}]

\* GET /api/books: requireDatabase, optionalAuth, the validators, the handler;
\* one request per behaviour, as a request reads and changes nothing
GetBooks ==
    /\ lastResp.route = "none"
    /\ UNCHANGED <<dbType, pool, dbUp, books, nextBookId, users, statsCache, now, calls,
                   listed, session>>
    /\ \E q \in ListQueries :
         LET route == "GET /api/books"
             my == IsMySQL(dbType)
             filters == ListFilters(q)
             stmt == BuildQuery(filters, my)
         IN  IF ~RequireDatabase(isConnected).pass
             THEN /\ lastResp' = [route |-> route, status |-> 503, q |-> q,
                                  called |-> FALSE]
                  /\ NoQuery
             ELSE IF ~ValidateListQuery(q)
             THEN /\ lastResp' = [route |-> route, status |-> 400, q |-> q,
                                  called |-> FALSE]
                  /\ NoQuery
             ELSE /\ \E result \in QueryOutcomes(stmt, books, my) :
                       LET res == GetAllBooks(filters, result)
                       IN  lastResp' = [route |-> route,
                                        status |-> IF res.kind = "ok" THEN 200 ELSE 500,
                                        q |-> q, called |-> TRUE,
                                        filters |-> filters, res |-> res]
                  /\ QueryCalled

NextRoute == GetBooks

SpecRoute == InitList /\ [][NextRoute]_vars

\* C21: a request whose page is present and not an integer >= 1, whose
\* limit is present and not an integer in 1..100, or whose year is present
\* and not an integer is answered 400 without getAllBooks being called;
\* every other request reaches getAllBooks with the requested limit
\* (default 10) and offset (page-1)*limit (page default 1), and a successful
\* response carries the requested page number.
C21_ListQueryValidatedAndPassedUnclamped ==
    (lastResp.route = "GET /api/books" /\ lastResp.status # 503) =>
        LET q == lastResp.q
            int(x) == UNION {IF IsInt(s) THEN ParseInt(s) ELSE {} : s \in x}
            bad == \/ q.page # {} /\ ~\E n \in int(q.page) : n >= 1
                   \/ q.limit # {} /\ ~\E n \in int(q.limit) : n \in 1..100
                   \/ q.year # {} /\ int(q.year) = {}
            page == IF q.page = {} THEN 1 ELSE CHOOSE n \in int(q.page) : TRUE
            limit == IF q.limit = {} THEN 10 ELSE CHOOSE n \in int(q.limit) : TRUE
        IN  IF bad
            THEN lastResp.status = 400 /\ ~lastResp.called
            ELSE /\ lastResp.called
                 /\ lastResp.filters.limit = {limit}
                 /\ lastResp.filters.offset = {(page - 1) * limit}
                 /\ lastResp.status = 200 => lastResp.res.page = page

\* page 3 with limit 2 has been requested and served
C21_Witness ==
    /\ lastResp.route = "GET /api/books"
    /\ lastResp.status = 200
    /\ lastResp.q.page = {<<"3">>} /\ lastResp.q.limit = {<<"2">>}
    /\ lastResp.res.page = 3

\* C27: a served request whose year parameter is an integer returns only
\* books whose published_year is that integer, and its total counts none
\* but such books.
C27_YearFilterIsExactEquality ==
    (lastResp.route = "GET /api/books" /\ lastResp.status = 200) =>
        \A s \in lastResp.q.year : \A y \in ParseInt(s) :
            /\ \A i \in 1..Len(lastResp.res.data) :
                   lastResp.res.data[i].published_year = {y}
            /\ lastResp.res.total
                   <= Cardinality({b \in books : b.published_year = {y}})

(***************************************************************************)
(* SpecAccounts: what the account routes store and send back.              *)
(***************************************************************************)
\* GET /api/auth/users: requireDatabase, authenticateToken, requireAdmin,
\* getAllUsers (which answers [] when the statement fails)
GetUsers ==
    /\ UNCHANGED <<dbType, pool, dbUp, books, nextBookId, users, statsCache, now, calls,
                   listed, session>>
    /\ \E header \in BookHeaderInputs :
         LET gate == AdminGate(header)
             route == "GET /api/auth/users"
         IN  IF ~gate.pass
             THEN /\ lastResp' = [route |-> route, status |-> gate.status, data |-> {}]
                  /\ NoQuery
             ELSE /\ lastResp' = [route |-> route, status |-> 200,
                                  data |-> IF dbUp
                                           THEN {FormatUserResponse(u) : u \in users}
                                           ELSE {}]
                  /\ QueryCalled

NextAccounts ==
    \/ Register
    \/ ExecByEmail
    \/ ExecByUsername
    \/ ExecInsertUser
    \/ Login
    \/ Me
    \/ GetUsers

SpecAccounts == InitAuth /\ [][NextAccounts]_vars

\* C22: every stored password_hash is the bcrypt hash of the account's
\* password, never the password itself; no user object in a response of register,
\* login, GET /api/auth/me or GET /api/auth/users, and no token payload,
\* has a password or password_hash field.
C22_PasswordsStoredHashedAndNeverReturned ==
    LET submitted == {d.password : d \in RegisterInputs \cup LoginInputs}
        sent == IF lastResp.route = "POST /api/auth/login"
                THEN lastResp.user \cup {tk.payload : tk \in lastResp.token}
                ELSE IF lastResp.route \in {"GET /api/auth/me", "GET /api/auth/users"}
                        /\ lastResp.status = 200
                THEN lastResp.data
                ELSE {}
    IN  /\ \A u \in users :
             /\ u.password_hash[1] = "bcrypt"
             /\ \E pw \in submitted \cup {"pw1"} : u.password_hash = Hash(pw)
        /\ \A x \in sent : DOMAIN x \cap {"password", "password_hash"} = {}
        /\ lastResp.route = RegisterRoute
             => DOMAIN lastResp \cap {"user", "token", "password_hash"} = {}

\* the list of users, holding an account registered through the API, has
\* been sent to an admin
C22_Witness ==
    /\ lastResp.route = "GET /api/auth/users"
    /\ lastResp.status = 200
    /\ \E u \in users \ AuthUsers :
          /\ u.password_hash = Hash("pw2")
          /\ FormatUserResponse(u) \in lastResp.data

\* C23: getStats answers from the cache, issuing no statement, only when
\* the cache holds an entry less than 60 000 ms old, and issues the
\* statistics query only when it holds none or an older one; the timestamp
\* of an entry is the time at which the call that computed it was made, so
\* a value served from the cache was queried for less than 60 000 ms ago.
C23_CacheServesOnlyWithinTtl ==
    [][LET fresh == statsCache # {} /\ \A e \in statsCache : now - e.timestamp < 60000
           started == {c \in calls' \ calls : c.op = "stats" /\ c.pc = "query"}
       IN  /\ started # {} => (~fresh /\ \A c \in started : c.t0 = now)
           /\ (lastResp' # lastResp /\ lastResp'.route = StatsRoute /\ lastResp'.cached)
                => (fresh /\ calls' = calls /\ statsCache' = statsCache)
           /\ (statsCache' # statsCache /\ statsCache' # {})
                => \A e \in statsCache' :
                      \E c \in calls : /\ c.op = "stats" /\ c.pc = "store"
                                       /\ e.timestamp = c.t0 /\ e.timestamp <= now
      ]_vars

\* the statistics have been served from the cache
C23_Witness ==
    /\ lastResp.route = StatsRoute
    /\ lastResp.status = 200
    /\ lastResp.cached
    /\ statsCache # {}

(***************************************************************************)
(* SpecConnect: one run of testConnection(retries), attempt by attempt.    *)
(* An attempt acquires a connection from the pool and then probes it; the  *)
(* database may go away or come back between any two steps.  `held` counts *)
(* the connections the run has acquired and not released.                  *)
(***************************************************************************)
MaxRetries == 5

\* the delay after the k-th failed attempt, without the cap
BackoffDelay_Uncapped(k) == 1000 * 2^(k - 1)

\* Math.min(1000 * Math.pow(2, attempt - 1), 5000)
BackoffDelay(k) == IF 1000 * 2^(k - 1) < 5000 THEN 1000 * 2^(k - 1) ELSE 5000

\* testConnection returns: isConnected is set to the result
TestDone(c, result) ==
    /\ isConnected' = result
    /\ calls' = calls \ {c}
    /\ lastResp' = [route |-> "testConnection", result |-> result,
                    retries |-> c.retries, attempts |-> c.attempt,
                    waits |-> c.waits, held |-> c.held]
    /\ UNCHANGED now

\* the catch block of an attempt: wait if attempts remain, else leave the
\* loop and return false
AttemptFailed(c) ==
    IF c.attempt < c.retries
    THEN /\ calls' = (calls \ {c}) \cup {[c EXCEPT !.pc = "wait"]}
         /\ UNCHANGED <<isConnected, lastResp, now>>
    ELSE TestDone(c, FALSE)

\* testConnection(retries) is called; with retries = 0 the loop is skipped
StartTestConnection ==
    /\ calls = {} /\ lastResp.route = "none"
    /\ \E retries \in 0..MaxRetries :
         LET c == [op |-> "testConnection", pc |-> "acquire", retries |-> retries,
                   attempt |-> 1, waits |-> <<>>, held |-> 0]
         IN  IF retries = 0
             THEN TestDone([c EXCEPT !.attempt = 0], FALSE)
             ELSE /\ calls' = {c}
                  /\ UNCHANGED <<isConnected, lastResp, now>>
    /\ UNCHANGED <<dbType, pool, dbUp, lastHealthCheck, books, nextBookId, users,
                   statsCache, listed, session>>

\* pool.getConnection() / pool.connect()
AcquireConnection ==
    /\ UNCHANGED <<dbType, pool, dbUp, lastHealthCheck, books, nextBookId, users,
                   statsCache, listed, session>>
    /\ \E c \in calls :
         /\ c.op = "testConnection" /\ c.pc = "acquire"
         /\ IF dbUp
            THEN /\ calls' = (calls \ {c}) \cup
                                {[c EXCEPT !.pc = "probe", !.held = c.held + 1]}
                 /\ UNCHANGED <<isConnected, lastResp, now>>
            ELSE AttemptFailed(c)

\* connection.ping() / client.query('SELECT version()'), then release();
\* when the probe throws, control goes to the catch block past release()
ProbeConnection ==
    /\ UNCHANGED <<dbType, pool, dbUp, lastHealthCheck, books, nextBookId, users,
                   statsCache, listed, session>>
    /\ \E c \in calls :
         /\ c.op = "testConnection" /\ c.pc = "probe"
         /\ IF dbUp
            THEN TestDone([c EXCEPT !.held = c.held - 1], TRUE)
            ELSE AttemptFailed(c)

\* the setTimeout of the backoff elapses; the loop goes to the next attempt
Backoff ==
    /\ UNCHANGED <<dbType, pool, dbUp, isConnected, lastHealthCheck, books, nextBookId,
                   users, statsCache, lastResp, listed, session>>
    /\ \E c \in calls :
         /\ c.op = "testConnection" /\ c.pc = "wait"
         /\ now' = now + BackoffDelay(c.attempt)
         /\ calls' = (calls \ {c}) \cup
                        {[c EXCEPT !.pc = "acquire", !.attempt = c.attempt + 1,
                                   !.waits = Append(c.waits, BackoffDelay(c.attempt))]}

NextConnect ==
    \/ StartTestConnection
    \/ AcquireConnection
    \/ ProbeConnection
    \/ Backoff
    \/ DbFails
    \/ DbRecovers

SpecConnect == InitDb /\ [][NextConnect]_vars

\* C24: a run of testConnection(retries) makes at most `retries` attempts;
\* before attempt k+1 it has waited 1000, 2000, 4000, 5000, 5000, ... ms
\* after the failed attempts 1..k and it never waits after its last attempt;
\* it returns true, with the status connected, at the first attempt that
\* succeeds, and false, with the status disconnected, after `retries`
\* failed attempts; every step of a run brings it nearer to its end.
C24_TestConnectionBoundedBackoff ==
    [][LET expected(k) == IF k = 1 THEN 1000 ELSE IF k = 2 THEN 2000
                          ELSE IF k = 3 THEN 4000 ELSE 5000
           waited(w, n) == Len(w) = n /\ \A k \in 1..n : w[k] = expected(k)
           rank(c) == 3 * (c.retries - c.attempt)
                        + (IF c.pc = "acquire" THEN 3
                           ELSE IF c.pc = "probe" THEN 2 ELSE 1)
           r == lastResp'
       IN  /\ \A c \in calls' :
                /\ c.attempt >= 1 /\ c.attempt <= c.retries
                /\ waited(c.waits, c.attempt - 1)
           /\ r.route = "testConnection" =>
                /\ r.attempts <= r.retries
                /\ r.attempts >= 1 => waited(r.waits, r.attempts - 1)
                /\ r.attempts = 0 => r.waits = <<>>
                /\ r.result => isConnected'
                /\ ~r.result => (~isConnected' /\ r.attempts = r.retries)
           /\ \A c \in calls : \A d \in calls' : c # d => rank(d) < rank(c)
      ]_vars

\* a run with five attempts has failed: it waited 1000, 2000, 4000 and
\* 5000 ms and not after the fifth attempt
C24_Witness ==
    /\ lastResp.route = "testConnection"
    /\ ~lastResp.result
    /\ lastResp.attempts = 5
    /\ lastResp.waits = <<1000, 2000, 4000, 5000>>

\* C26: a run of testConnection that has returned holds no connection: each
\* one it acquired was released, whether its probe succeeded or failed.
C26_AcquiredConnectionsReleased ==
    lastResp.route = "testConnection" => lastResp.held = 0

(***************************************************************************)
(* SpecCreate: concurrent createBook calls on the shared pool.  query()    *)
(* runs each statement on a connection the pool hands out: a free open one *)
(* if there is any, else a newly opened one.  LAST_INSERT_ID() is the id   *)
(* of the last INSERT made on the connection the statement runs on.        *)
(***************************************************************************)
\* BookService.createBook(bookData) up to its first await
CreateBook ==
    /\ (nextBookId - 2) + Cardinality(calls) < MaxCreates
    /\ \E title \in {<<"A">>, <<"B">>} :
         LET data == [title |-> {title}, author |-> {<<"H">>},
                      published_year |-> {}, genre |-> {}]
         IN  /\ \A c \in calls : c.data # data
             /\ calls' = calls \cup {[op |-> "createBook", pc |-> "insert",
                                      data |-> data, conn |-> 0, id |-> 0]}
    /\ statsCache' = {}
    /\ NoQuery
    /\ UNCHANGED <<dbType, pool, dbUp, books, nextBookId, users, now, lastResp,
                   listed, session>>

\* query(text, params): the pool hands the statement a connection
StartStatement ==
    /\ \E c \in calls :
         /\ c.op = "createBook" /\ c.pc \in {"insert", "select"}
         /\ LET free == {k \in 1..PoolSize : pool[k].open /\ ~pool[k].busy}
                closed == {k \in 1..PoolSize : ~pool[k].open}
            IN  \E k \in (IF free # {} THEN free ELSE closed) :
                  /\ pool' = [pool EXCEPT ![k].open = TRUE, ![k].busy = TRUE]
                  /\ calls' = (calls \ {c}) \cup
                                 {[c EXCEPT !.conn = k,
                                            !.pc = IF c.pc = "insert" THEN "inserting"
                                                   ELSE "selecting"]}
    /\ QueryCalled
    /\ UNCHANGED <<dbType, dbUp, books, nextBookId, users, statsCache, now,
                   lastResp, listed, session>>

\* the engine executes the statement and the connection goes back to the
\* pool; createBook resumes.  PostgreSQL: INSERT ... RETURNING * gives the
\* row.  MySQL: the INSERT is followed by
\* SELECT * FROM books WHERE id = LAST_INSERT_ID()
FinishStatement ==
    /\ \E c \in calls :
         /\ c.op = "createBook" /\ c.pc \in {"inserting", "selecting"}
         /\ LET row == InsertedRow(nextBookId, c.data, now)
                done(returned, id) ==
                    /\ calls' = calls \ {c}
                    /\ lastResp' = [route |-> "createBook", returned |-> returned,
                                    id |-> id, data |-> c.data]
            IN  IF c.pc = "inserting"
                THEN /\ books' = books \cup {row}
                     /\ nextBookId' = nextBookId + 1
                     /\ pool' = [pool EXCEPT ![c.conn].busy = FALSE,
                                             ![c.conn].lastInsertId = nextBookId]
                     /\ IF IsMySQL(dbType)
                        THEN /\ calls' = (calls \ {c}) \cup
                                            {[c EXCEPT !.pc = "select", !.conn = 0,
                                                       !.id = nextBookId]}
                             /\ UNCHANGED lastResp
                        ELSE done({row}, nextBookId)
                ELSE /\ pool' = [pool EXCEPT ![c.conn].busy = FALSE]
                     /\ done({b \in books : b.id = pool[c.conn].lastInsertId}, c.id)
                     /\ UNCHANGED <<books, nextBookId>>
    /\ UNCHANGED <<dbType, dbUp, isConnected, lastHealthCheck, users, statsCache,
                   now, listed, session>>

NextCreate == CreateBook \/ StartStatement \/ FinishStatement

SpecCreate == Init /\ [][NextCreate]_vars

\* C25: what createBook returns is the row this call inserted: the row with
\* the id its INSERT was given and the title and author it was called with.
C25_CreateReturnsOwnRow ==
    lastResp.route = "createBook" =>
        /\ lastResp.returned = {b \in books : b.id = lastResp.id}
        /\ \A b \in lastResp.returned :
              {b.title} = lastResp.data.title /\ {b.author} = lastResp.data.author

\* C28: an updateBook call rejected with 'No fields to update' (the route
\* answers 500 to a body supplying none of the four fields) leaves the
\* service state as it was: no statement is issued and the statistics
\* cache keeps the entry it held.
C28_RejectedUpdateLeavesStateUnchanged ==
    [][(/\ lastResp'.route = "PUT /api/books/:id"
        /\ lastResp'.status = 500
        /\ lastResp'.nfields = 0
        /\ calls' = calls /\ now' = now)
          => /\ statsCache' = statsCache
             /\ books' = books
             /\ lastHealthCheck' = lastHealthCheck]_vars

\* C29: the users table starts with an admin, and no sequence of accepted
\* PUT /users/:id/role and DELETE /users/:id requests made with admin tokens
\* leaves it without one: some row has role admin in every reachable state.
C29_SomeAdminRemains ==
    \E u \in users : u.role = "admin"

\* C30: no sequence of requests made without an admin token, POST
\* /register with a role in its body included, produces an admin account:
\* under the registration requests alone, the rows with role admin are the
\* ones the table started with.
C30_NoAdminWithoutAdminToken ==
    \A u \in users : u.role = "admin" => u \in AuthUsers

====
